---- MODULE Spec2Model ----
(***************************************************************************)
(* The resumable five-stage vocabulary pipeline of anki_vocab/pipeline.py  *)
(* with its SQLite status table (anki_vocab/utils.py).                     *)
(*                                                                         *)
(* One action is the code a coroutine runs between two suspension points   *)
(* of the asyncio event loop.  sqlite3 calls are synchronous, so a status  *)
(* read, a status write and everything between them belong to the action   *)
(* that runs them; the suspension points are the awaited collaborator      *)
(* calls, a wait for a semaphore slot, the gather of Stage 4 and the       *)
(* sleep of Stage 5.                                                       *)
(***************************************************************************)
EXTENDS Integers, Sequences, FiniteSets, TLC

\* Python's None for an Optional[str] field.
None == "None"

\* Optional list fields: NoList is None, Some(l) is the list l.
NoList == << >>
Some(l) == << l >>

-----------------------------------------------------------------------------
(* Bounds of the model *)

\* entries (words times runs) created against one history database
MaxEntries == 2
\* number of process_batch runs against the same history database
MaxRuns == 2
\* longest bulk response (items) of a Stage 1-3 chat call
MaxItems == 2
\* most sentences a Stage 3 response item carries
MaxSentences == 4
\* most URLs a stock-photo search returns
MaxUrls == 2
\* largest MAX_PARALLEL_REQUESTS of the runs of several batches
MaxSlots == 2
\* longest chat text, in tokens
MaxTokens == 3
\* longest word list of the runs that only chunk
MaxWords == 41

-----------------------------------------------------------------------------
(* Program constants *)

\* asyncio.Semaphore(3) of Stage 4
Stage4PoolSize == 3
\* search_pexels_images(entry.translation, count=3)
PexelsCount == 3
\* int(os.getenv("BATCH_SIZE", "20"))
DefaultBatchSize == 20

-----------------------------------------------------------------------------
(* Data *)

\* input words (WordEntry.original)
Originals == {"ljubav", "ljubavi"}
\* canonical forms a metadata response can carry
CanonicalForms == {"ljubav", "jabuka"}
\* tag of a response item that names no requested word
ExtraWord == "extra"
Tags == Originals \cup {ExtraWord}

RECURSIVE SeqsUpTo(_, _)
SeqsUpTo(S, n) ==
    IF n = 0 THEN {<< >>}
    ELSE LET shorter == SeqsUpTo(S, n - 1)
         IN  shorter \cup {Append(s, x) : s \in {t \in shorter : Len(t) = n - 1}, x \in S}

\* the word lists handed to process_batch: none, one word, two words with
\* different spellings, the same word twice
WordLists ==
    {<< >>, <<"ljubav">>, <<"ljubavi", "ljubav">>, <<"ljubav", "ljubav">>}

\* force and test_mode of a run (force changes nothing under test_mode)
Modes ==
    {[force |-> FALSE, test_mode |-> FALSE],
     [force |-> TRUE, test_mode |-> FALSE],
     [force |-> FALSE, test_mode |-> TRUE]}

\* models.StageStatus (completed_at is never assigned by the pipeline)
StageStatus(m, d, e, p, g) ==
    [metadata |-> m, definition |-> d, examples |-> e,
     image_prompt |-> p, image_generation |-> g]

DefaultStatus == StageStatus(FALSE, FALSE, FALSE, FALSE, FALSE)

Flags == {"metadata", "definition", "examples", "image_prompt", "image_generation"}

\* models.WordEntry(original=word)
WordEntry(w) ==
    [original |-> w, canonical_form |-> None, part_of_speech |-> None,
     word_type |-> None, translation |-> None, definition |-> None,
     example_sentences |-> NoList, image_prompt |-> None, image_files |-> NoList]

\* Python truthiness of an Optional[str] and of an Optional[list]
TruthyStr(s) == s # None /\ s # ""
TruthyList(l) == l # NoList /\ l[1] # << >>

-----------------------------------------------------------------------------
(* The history database: table words(canonical_form PRIMARY KEY, status).  *)
(* rows maps the non-NULL keys present to their status blob.  A NULL key   *)
(* is no conflict for INSERT OR REPLACE and never equals the parameter of  *)
(* the SELECT, so rows written under NULL pile up in nulls unread.         *)

EmptyDb == [rows |-> << >>, nulls |-> {}]

\* utils.get_word_status: << >> when no row matches, <<status>> otherwise
get_word_status(db, canonical_form) ==
    IF canonical_form # None /\ canonical_form \in DOMAIN db.rows
    THEN << db.rows[canonical_form] >>
    ELSE << >>

\* utils.update_word_status: INSERT OR REPLACE of the whole blob
update_word_status(db, canonical_form, stage_status) ==
    IF canonical_form = None
    THEN [db EXCEPT !.nulls = @ \cup {stage_status}]
    ELSE [db EXCEPT !.rows =
            [k \in DOMAIN db.rows \cup {canonical_form} |->
                IF k = canonical_form THEN stage_status ELSE db.rows[k]]]

\* `get_word_status(k) or fallback`
StatusOr(db, canonical_form, fallback) ==
    LET got == get_word_status(db, canonical_form)
    IN  IF got = << >> THEN fallback ELSE got[1]

-----------------------------------------------------------------------------
(* State *)

VARIABLES
    db,          \* the history database (survives the runs)
    BATCH_SIZE,  \* config.BATCH_SIZE of this process environment
    MAX_PARALLEL_REQUESTS,  \* config.MAX_PARALLEL_REQUESTS of this environment
    words,       \* the word list of the runs
    run,         \* number of process_batch calls so far
    force,       \* Pipeline.force of the current run
    test_mode,   \* Pipeline.test_mode of the current run
    outcome,     \* "idle" | "running" | "returned" | "raised"
    entries,     \* the WordEntry list of the current run
    batches,     \* per batch: the position of its _process_batch coroutine
    semaphore,   \* slots of Pipeline.semaphore taken
    tasks,       \* per entry: its Stage 4 process_single_prompt task
    calls,       \* per entry: the collaborator calls issued for it this run
    results,     \* the list process_batch returned
    prev,        \* what the previous run left: its mode, end and entries
    chat,        \* the call_chat invocation under way: its attempts and its end
    loop_open    \* the caller's event loop keeps running once process_batch raised

vars == << db, BATCH_SIZE, MAX_PARALLEL_REQUESTS, words, run, force, test_mode, outcome, entries,
           batches, semaphore, tasks, calls, results, prev, chat, loop_open >>

\* a wrong count, which drops the incomplete batch: C34 must tell it apart
NumBatchesFloor(n, size) == n \div size

\* number of batches of a list of n entries: range(0, n, BATCH_SIZE)
NumBatches(n, size) == (n + size - 1) \div size

\* entries[i:i + BATCH_SIZE] of the b-th batch, as entry indices
BatchLo(b, size) == (b - 1) * size + 1
BatchHi(b, size, n) == IF b * size < n THEN b * size ELSE n

Indices(lo, hi) == [k \in 1..(hi - lo + 1) |-> lo + k - 1]

\* a _process_batch coroutine that has not run yet; selected, processed and
\* pauses count, for its Stage 5, the entries of words_to_process, the items
\* whose branch was entered and the calls of asyncio.sleep; store_error tells
\* that sqlite3 raised in a store access of the coroutine
NewBatch(lo, hi) ==
    [lo |-> lo, hi |-> hi, pc |-> "start", to_process |-> << >>, i |-> 0,
     urls |-> 0, url |-> 0, image_files |-> << >>, results |-> << >>,
     selected |-> 0, processed |-> 0, pauses |-> 0, store_error |-> FALSE]

\* The state a coroutine step works on; bt is the record of the stepping batch.
Ctx(b) ==
    [db |-> db, entries |-> entries, semaphore |-> semaphore, tasks |-> tasks,
     calls |-> calls, bt |-> batches[b]]

Range(s) == {s[k] : k \in 1..Len(s)}

\* record the collaborator call `kind` for the entries of the sequence idx
Called(c, idx, kind) ==
    [c EXCEPT !.calls = [j \in DOMAIN c.calls |->
        IF j \in Range(idx) THEN c.calls[j] \cup {kind} ELSE c.calls[j]]]

\* a wrong match, by position: every item goes to the head of
\* words_to_process; C30 must tell it apart
HeadEntry(c, word) ==
    IF c.bt.to_process = << >> THEN 0 ELSE c.bt.to_process[1]

\* a wrong match, the last entry of the tag: C31 must tell it apart
LastMatch(c, word) ==
    LET hits == {k \in 1..Len(c.bt.to_process) :
                    c.entries[c.bt.to_process[k]].original = word}
    IN  IF hits = {} THEN 0
        ELSE c.bt.to_process[CHOOSE k \in hits : \A h \in hits : k >= h]

\* the first entry of words_to_process whose original is the tag, 0 for none:
\* next((e for e in words_to_process if e.original == word), None)
FirstMatch(c, word) ==
    LET hits == {k \in 1..Len(c.bt.to_process) :
                    c.entries[c.bt.to_process[k]].original = word}
    IN  IF hits = {} THEN 0
        ELSE c.bt.to_process[CHOOSE k \in hits : \A h \in hits : k <= h]

\* the entries of the batch that a stage's test selects, in batch order
Select(c, Test(_, _)) ==
    SelectSeq(Indices(c.bt.lo, c.bt.hi), LAMBDA j : Test(c, c.entries[j]))

-----------------------------------------------------------------------------
(* _process_batch, lines 80-90: the results of a batch *)

\* a wrong read-back, by the original spelling: C10 must tell it apart
ResultStatusByOriginal(c, entry) ==
    IF test_mode THEN DefaultStatus
    ELSE StatusOr(c.db, entry.original, DefaultStatus)

ResultStatus(c, entry) ==
    IF test_mode THEN DefaultStatus
    ELSE StatusOr(c.db, entry.canonical_form, DefaultStatus)

Finish(c) ==
    [c EXCEPT !.bt.pc = "done",
              !.bt.to_process = << >>,
              !.bt.i = 0,
              !.bt.results =
                  [k \in 1..(c.bt.hi - c.bt.lo + 1) |->
                      LET entry == c.entries[c.bt.lo + k - 1]
                      IN  [word |-> entry, stage_status |-> ResultStatus(c, entry)]]]

-----------------------------------------------------------------------------
(* Stage 5, _run_stage_5_images *)

\* a wrong test, which reads the flag in test mode too: C37 must tell it
\* apart
Stage5DoneInTest(c, entry) ==
    /\ ~force
    /\ get_word_status(c.db, entry.canonical_form) # << >>
    /\ get_word_status(c.db, entry.canonical_form)[1].image_generation

\* lines 324-328 and 344-347: the persisted image_generation flag skips the entry
Stage5Done(c, entry) ==
    /\ ~test_mode
    /\ ~force
    /\ get_word_status(c.db, entry.canonical_form) # << >>
    /\ get_word_status(c.db, entry.canonical_form)[1].image_generation

\* a wrong filter, without the canonical_form test: C5 must tell it apart
Stage5SelectsAny(c, entry) == ~Stage5Done(c, entry)

\* lines 320-330: the filter
Stage5Selects(c, entry) ==
    /\ TruthyStr(entry.canonical_form)
    /\ ~Stage5Done(c, entry)

\* lines 357-362: the completion write of Stage 5
Stage5Write(c, entry) ==
    IF TruthyList(entry.image_files) /\ ~test_mode
    THEN [c EXCEPT !.db = update_word_status(c.db, entry.canonical_form,
            [StatusOr(c.db, entry.canonical_form, DefaultStatus)
                EXCEPT !.image_generation = TRUE])]
    ELSE c

\* a wrong pause test, after the last item too: C11 must tell it apart
Stage5PausesAlways(c, i) == i <= Len(c.bt.to_process)

\* line 368: the pause follows every item but the last of words_to_process
Stage5Pauses(c, i) == i < Len(c.bt.to_process)

RECURSIVE stage_5_item(_, _), stage_5_after(_, _)

\* lines 357-369: after the branch of item i returned
stage_5_after(c, i) ==
    LET c1 == Stage5Write(c, c.entries[c.bt.to_process[i]])
        c2 == [c1 EXCEPT !.bt.urls = 0, !.bt.url = 0, !.bt.image_files = << >>]
    IN  IF Stage5Pauses(c2, i)
        THEN [c2 EXCEPT !.bt.pc = "s5_sleep", !.bt.i = i, !.bt.pauses = @ + 1]
        ELSE stage_5_item(c2, i + 1)

\* lines 340-355 with the guards of _fetch_pexels_images (379-387) and
\* _generate_dalle_image (407-416): item i up to its first awaited call
stage_5_item(c, i) ==
    IF i > Len(c.bt.to_process) THEN Finish(c)
    ELSE LET j == c.bt.to_process[i]
             entry == c.entries[j]
             in == [c EXCEPT !.bt.processed = @ + 1]
         IN  IF ~TruthyStr(entry.canonical_form) \/ Stage5Done(c, entry)
             THEN stage_5_item(c, i + 1)
             ELSE IF entry.word_type = "SIMPLE"
             THEN IF ~TruthyStr(entry.translation)
                  THEN stage_5_after(in, i)
                  ELSE Called([in EXCEPT !.bt.pc = "s5_search", !.bt.i = i],
                              << j >>, "search")
             ELSE IF ~TruthyStr(entry.image_prompt)
                  THEN stage_5_after(in, i)
                  ELSE Called([in EXCEPT !.bt.pc = "s5_generate", !.bt.i = i],
                              << j >>, "generate")

run_stage_5_images(c) ==
    LET words_to_process == Select(c, Stage5Selects)
    IN  IF words_to_process = << >> THEN Finish(c)
        ELSE stage_5_item([c EXCEPT !.bt.to_process = words_to_process,
                                    !.bt.selected = Len(words_to_process)], 1)

-----------------------------------------------------------------------------
(* Stage 4, _run_stage_4_image_prompt *)

\* a wrong branch test, any classified entity: C7 must tell it apart
IsClassified(c, entry) == entry.word_type # None

\* _process_batch line 65: complex_entries
IsComplex(c, entry) == entry.word_type = "COMPLEX"

\* `not status or not status.<flag>` of the filters of Stages 2-4
FlagMissing(c, entry, flag) ==
    \/ get_word_status(c.db, entry.canonical_form) = << >>
    \/ ~get_word_status(c.db, entry.canonical_form)[1][flag]

\* a wrong filter, keyed on the metadata flag: C8 must tell it apart
Stage4SelectsByMetadata(c, entry) ==
    /\ IsComplex(c, entry)
    /\ (test_mode \/ force \/ FlagMissing(c, entry, "metadata"))

\* lines 259-267: the filter, over complex_entries
Stage4Selects(c, entry) ==
    /\ IsComplex(c, entry)
    /\ (test_mode \/ force \/ FlagMissing(c, entry, "image_prompt"))

\* lines 297-301: the completion write of a Stage 4 task
Stage4Write(c, entry) ==
    IF test_mode THEN c
    ELSE [c EXCEPT !.db = update_word_status(c.db, entry.canonical_form,
            [StatusOr(c.db, entry.canonical_form,
                      StageStatus(TRUE, TRUE, TRUE, FALSE, FALSE))
                EXCEPT !.image_prompt = TRUE])]

\* a wrong Stage 4, every task calling at once: C13 must tell it apart
run_stage_4_unpooled(c) ==
    LET words_to_process == Select(c, Stage4Selects)
    IN  IF words_to_process = << >> THEN run_stage_5_images(c)
        ELSE Called(
               [c EXCEPT !.bt.pc = "s4",
                         !.bt.to_process = words_to_process,
                         !.tasks = [j \in DOMAIN c.tasks |->
                             IF j \in Range(words_to_process) THEN "call"
                             ELSE c.tasks[j]]],
               words_to_process, "image_prompt")

\* lines 276-309: the tasks are created in list order and run up to their
\* first suspension; the first Stage4PoolSize take a slot and call
run_stage_4_image_prompt(c) ==
    LET words_to_process == Select(c, Stage4Selects)
        n == Len(words_to_process)
        first == SubSeq(words_to_process, 1,
                        IF n < Stage4PoolSize THEN n ELSE Stage4PoolSize)
    IN  IF words_to_process = << >> THEN run_stage_5_images(c)
        ELSE Called(
               [c EXCEPT !.bt.pc = "s4",
                         !.bt.to_process = words_to_process,
                         !.tasks = [j \in DOMAIN c.tasks |->
                             IF j \in Range(first) THEN "call"
                             ELSE IF j \in Range(words_to_process) THEN "wait"
                             ELSE c.tasks[j]]],
               first, "image_prompt")

-----------------------------------------------------------------------------
(* Stages 1-3: one bulk call per batch under Pipeline.semaphore *)

CallPc(n) == CASE n = 1 -> "s1_call" [] n = 2 -> "s2_call" [] n = 3 -> "s3_call"
WaitPc(n) == CASE n = 1 -> "s1_wait" [] n = 2 -> "s2_wait" [] n = 3 -> "s3_wait"
CallKind(n) == CASE n = 1 -> "metadata" [] n = 2 -> "definition" [] n = 3 -> "examples"

\* a wrong acquire, which never waits: C12 must tell it apart
IssueBulkUnbounded(c, n) ==
    Called([c EXCEPT !.semaphore = @ + 1, !.bt.pc = CallPc(n)],
           c.bt.to_process, CallKind(n))

\* `async with self.semaphore` followed by the call: with a free slot the
\* coroutine goes on to the call, otherwise it waits
IssueBulk(c, n) ==
    IF c.semaphore < MAX_PARALLEL_REQUESTS
    THEN Called([c EXCEPT !.semaphore = @ + 1, !.bt.pc = CallPc(n)],
                c.bt.to_process, CallKind(n))
    ELSE [c EXCEPT !.bt.pc = WaitPc(n)]

\* Stage 3 filter, lines 205-213
Stage3Selects(c, entry) ==
    /\ IsComplex(c, entry)
    /\ (test_mode \/ force \/ FlagMissing(c, entry, "examples"))

run_stage_3_examples(c) ==
    LET words_to_process == Select(c, Stage3Selects)
    IN  IF words_to_process = << >> THEN run_stage_4_image_prompt(c)
        ELSE IssueBulk([c EXCEPT !.bt.to_process = words_to_process], 3)

\* Stage 2 filter, lines 151-159
Stage2Selects(c, entry) ==
    /\ IsComplex(c, entry)
    /\ (test_mode \/ force \/ FlagMissing(c, entry, "definition"))

run_stage_2_definition(c) ==
    LET words_to_process == Select(c, Stage2Selects)
    IN  IF words_to_process = << >> THEN run_stage_3_examples(c)
        ELSE IssueBulk([c EXCEPT !.bt.to_process = words_to_process], 2)

\* _process_batch lines 64-78, after Stage 1 returned
after_stage_1(c) ==
    IF Select(c, IsComplex) = << >> THEN run_stage_5_images(c)
    ELSE run_stage_2_definition(c)

\* a wrong filter, blind to force: C4 must tell it apart
Stage1SelectsUnforced(c, entry) ==
    test_mode \/ get_word_status(c.db, entry.original) = << >>

\* Stage 1 filter, line 100: keyed by the original spelling
Stage1Selects(c, entry) ==
    test_mode \/ force \/ get_word_status(c.db, entry.original) = << >>

\* a wrong Stage 1, which calls whatever its filter selects: C24 must tell
\* it apart
run_stage_1_always(c) ==
    IssueBulk([c EXCEPT !.bt.to_process = Select(c, Stage1Selects)], 1)

\* lines 96-121: the filter, the early return and the call
run_stage_1_metadata(c) ==
    LET words_to_process == Select(c, Stage1Selects)
    IN  IF words_to_process = << >> THEN after_stage_1(c)
        ELSE IssueBulk([c EXCEPT !.bt.to_process = words_to_process], 1)

-----------------------------------------------------------------------------
(* Bulk responses and the response merge of Stages 1-3 *)

Definitions == {"osjecaj"}
\* response.strip() of the Stage 4 chat text: a prompt, or nothing left of a
\* blank text
ImagePrompts == {"two hands", ""}

\* what item.get(...) yields for the four metadata keys of a response item:
\* the complete items, and items that lack a key
MetadataFields ==
    {[canonical_form |-> k, part_of_speech |-> "imenica", word_type |-> t,
      translation |-> "love"] : k \in CanonicalForms, t \in {"SIMPLE", "COMPLEX"}}
    \cup
    {[canonical_form |-> None, part_of_speech |-> "imenica",
      word_type |-> "COMPLEX", translation |-> "love"],
     [canonical_form |-> "jabuka", part_of_speech |-> None,
      word_type |-> "SIMPLE", translation |-> None]}

MetadataItems ==
    {[word |-> w, canonical_form |-> f.canonical_form,
      part_of_speech |-> f.part_of_speech, word_type |-> f.word_type,
      translation |-> f.translation] : w \in Tags, f \in MetadataFields}

DefinitionItems ==
    {[word |-> w, definition |-> d] : w \in Tags, d \in Definitions}

Sentences(n) == [k \in 1..n |-> "recenica"]

\* item.get("example_sentences", []) of an item
ExampleItems ==
    {[word |-> w, example_sentences |-> Sentences(n)] : w \in Tags, n \in {3, MaxSentences}}

MetadataResponses == SeqsUpTo(MetadataItems, MaxItems)
DefinitionResponses == SeqsUpTo(DefinitionItems, MaxItems)
ExampleResponses == SeqsUpTo(ExampleItems, MaxItems)

\* line 137: the status Stage 1 writes
Stage1Status == StageStatus(TRUE, FALSE, FALSE, FALSE, FALSE)

\* a wrong merge, which sets the fields and writes nothing: C39 must tell
\* it apart
MergeMetadataUnwritten(c, item) ==
    LET j == FirstMatch(c, item.word)
    IN  IF j = 0 THEN c
        ELSE [c EXCEPT !.entries[j].canonical_form = item.canonical_form,
                       !.entries[j].part_of_speech = item.part_of_speech,
                       !.entries[j].word_type = item.word_type,
                       !.entries[j].translation = item.translation]

\* lines 126-138: one item of the metadata response
MergeMetadata(c, item) ==
    LET j == FirstMatch(c, item.word)
        c1 == [c EXCEPT !.entries[j].canonical_form = item.canonical_form,
                        !.entries[j].part_of_speech = item.part_of_speech,
                        !.entries[j].word_type = item.word_type,
                        !.entries[j].translation = item.translation]
    IN  IF j = 0 THEN c
        ELSE IF test_mode THEN c1
        ELSE [c1 EXCEPT !.db =
                update_word_status(c1.db, item.canonical_form, Stage1Status)]

\* lines 188-192 and 242-246: the completion write of Stages 2 and 3
BulkWrite(c, entry, fallback, flag) ==
    IF test_mode THEN c
    ELSE [c EXCEPT !.db = update_word_status(c.db, entry.canonical_form,
            [StatusOr(c.db, entry.canonical_form, fallback) EXCEPT ![flag] = TRUE])]

\* lines 182-192: one item of the definition response
MergeDefinition(c, item) ==
    LET j == FirstMatch(c, item.word)
        c1 == [c EXCEPT !.entries[j].definition = item.definition]
    IN  IF j = 0 THEN c
        ELSE BulkWrite(c1, c1.entries[j],
                       StageStatus(TRUE, FALSE, FALSE, FALSE, FALSE), "definition")

\* lines 236-246: one item of the examples response
MergeExamples(c, item) ==
    LET j == FirstMatch(c, item.word)
        c1 == [c EXCEPT !.entries[j].example_sentences = Some(item.example_sentences)]
    IN  IF j = 0 THEN c
        ELSE BulkWrite(c1, c1.entries[j],
                       StageStatus(TRUE, TRUE, FALSE, FALSE, FALSE), "examples")

MergeItem(c, n, item) ==
    CASE n = 1 -> MergeMetadata(c, item)
      [] n = 2 -> MergeDefinition(c, item)
      [] n = 3 -> MergeExamples(c, item)

\* `for item in response:` from item k on
RECURSIVE Merge(_, _, _, _)
Merge(c, n, response, k) ==
    IF k > Len(response) THEN c
    ELSE Merge(MergeItem(c, n, response[k]), n, response, k + 1)

\* the stage that follows the bulk stage n in _process_batch
Continue(c, n) ==
    CASE n = 1 -> after_stage_1(c)
      [] n = 2 -> run_stage_3_examples(c)
      [] n = 3 -> run_stage_4_image_prompt(c)

-----------------------------------------------------------------------------
(* Initial state and the steps of a run *)

NoRun == [force |-> FALSE, test_mode |-> FALSE, outcome |-> "idle", words |-> << >>]

\* no call_chat invocation yet: errors lists the exception of each failed
\* attempt, raised is the exception call_chat ended with
NoChat == [pc |-> "idle", errors |-> << >>, raised |-> None]

Init ==
    /\ db = EmptyDb
    /\ BATCH_SIZE = 2
    /\ MAX_PARALLEL_REQUESTS = 1
    /\ words \in WordLists
    /\ run = 0
    /\ force = FALSE
    /\ test_mode = FALSE
    /\ outcome = "idle"
    /\ entries = << >>
    /\ batches = << >>
    /\ semaphore = 0
    /\ tasks = << >>
    /\ calls = << >>
    /\ results = << >>
    /\ prev = NoRun
    /\ chat = NoChat
    /\ loop_open = FALSE

Batches == DOMAIN batches
WaitPcs == {"s1_wait", "s2_wait", "s3_wait"}
StageOfPc(pc) ==
    CASE pc \in {"s1_wait", "s1_call"} -> 1
      [] pc \in {"s2_wait", "s2_call"} -> 2
      [] pc \in {"s3_wait", "s3_call"} -> 3

\* every batch coroutine has run up to its first suspension: gather starts
\* them in list order before any awaited call can complete
AllStarted == \A b \in Batches : batches[b].pc # "start"
\* the coroutines of the run are scheduled: gather (line 49) cancels none of
\* them when one has raised, so they go on for as long as the loop runs
Running ==
    /\ AllStarted
    /\ outcome = "running" \/ (outcome = "raised" /\ loop_open)

BatchOf(j) == CHOOSE b \in Batches : batches[b].lo <= j /\ j <= batches[b].hi

\* what a run leaves behind for the next one: per word, the canonical form and
\* word type it had, the status persisted for it and the calls issued for it
Summary(end, c) ==
    [force |-> force, test_mode |-> test_mode, outcome |-> end,
     words |-> [j \in DOMAIN c.entries |->
        [canonical_form |-> c.entries[j].canonical_form,
         word_type |-> c.entries[j].word_type,
         stage_status |-> StatusOr(c.db, c.entries[j].canonical_form, DefaultStatus),
         calls |-> c.calls[j]]]]

\* the step of batch b ends in c; the batch w (0: none) was handed the slot
Apply(b, c, w) ==
    /\ db' = c.db
    /\ entries' = c.entries
    /\ semaphore' = c.semaphore
    /\ tasks' = c.tasks
    /\ calls' = c.calls
    /\ batches' = [x \in Batches |->
            IF x = b THEN c.bt
            ELSE IF x = w THEN [batches[x] EXCEPT !.pc = CallPc(StageOfPc(@))]
            ELSE batches[x]]
    /\ UNCHANGED << chat, loop_open, BATCH_SIZE, MAX_PARALLEL_REQUESTS, words, run, force,
                    test_mode,
                    outcome, results, prev >>

\* a wrong abort, which keeps the failure in its batch and lets the run go
\* on: C15 must tell it apart
AbortIsolated(b, c) ==
    /\ db' = c.db
    /\ entries' = c.entries
    /\ semaphore' = c.semaphore
    /\ tasks' = c.tasks
    /\ calls' = c.calls
    /\ batches' = [batches EXCEPT ![b] = [Finish(c).bt EXCEPT !.pc = "raised"]]
    /\ UNCHANGED << chat, loop_open, BATCH_SIZE, MAX_PARALLEL_REQUESTS, words, run, force,
                    test_mode,
                    outcome, results, prev >>

\* an exception leaves _process_batch of batch b: gather re-raises it and
\* process_batch raises to its caller
Abort(b, c) ==
    /\ db' = c.db
    /\ entries' = c.entries
    /\ semaphore' = c.semaphore
    /\ tasks' = c.tasks
    /\ calls' = c.calls
    /\ batches' = [batches EXCEPT ![b] = [c.bt EXCEPT !.pc = "raised"]]
    /\ outcome' = "raised"
    /\ prev' = Summary("raised", c)
    /\ UNCHANGED << chat, loop_open, BATCH_SIZE, MAX_PARALLEL_REQUESTS, words, run, force,
                    test_mode, results >>

\* Pipeline(force, test_mode).process_batch(words), lines 28-48
ProcessBatch(f, t) ==
    /\ outcome # "running"
    /\ run < MaxRuns
    /\ run = 0 \/ (run + 1) * Len(words) <= MaxEntries
    /\ run' = run + 1
    /\ force' = f
    /\ test_mode' = t
    /\ outcome' = "running"
    /\ entries' = [j \in 1..Len(words) |-> WordEntry(words[j])]
    /\ batches' = [b \in 1..NumBatches(Len(words), BATCH_SIZE) |->
            NewBatch(BatchLo(b, BATCH_SIZE), BatchHi(b, BATCH_SIZE, Len(words)))]
    /\ semaphore' = 0
    /\ tasks' = [j \in 1..Len(words) |-> "idle"]
    /\ calls' = [j \in 1..Len(words) |-> {}]
    /\ results' = << >>
    /\ UNCHANGED << chat, loop_open, db, BATCH_SIZE, MAX_PARALLEL_REQUESTS, words, prev >>

\* a batch coroutine runs from its start to its first suspension
StartBatch(b) ==
    /\ outcome = "running"
    /\ batches[b].pc = "start"
    /\ \A x \in Batches : x < b => batches[x].pc # "start"
    /\ Apply(b, run_stage_1_metadata(Ctx(b)), 0)

\* the batches a released slot of Pipeline.semaphore can be handed to; 0 leaves
\* the slot free (a waiter then takes it in a step of its own, unless the
\* releasing coroutine takes it again first)
Handoffs == {0} \cup {w \in Batches : batches[w].pc \in WaitPcs}

\* a wrong exit of `async with`, which keeps the slot: C38 must tell it apart
KeepSlot(c, w) == c

Release(c, w) ==
    IF w = 0 THEN [c EXCEPT !.semaphore = @ - 1]
    ELSE Called(c, batches[w].to_process, CallKind(StageOfPc(batches[w].pc)))

\* a waiting batch takes a free slot and issues its bulk call
SemaphoreAcquired(b) ==
    /\ Running
    /\ batches[b].pc \in WaitPcs
    /\ semaphore < MAX_PARALLEL_REQUESTS
    /\ Apply(b, IssueBulk(Ctx(b), StageOfPc(batches[b].pc)), 0)

\* call_chat_json of bulk stage n returns the list `response`
BulkReturns(b, n, response, w) ==
    /\ Running
    /\ batches[b].pc = CallPc(n)
    /\ LET merged == Merge(Ctx(b), n, response, 1)
           left == Release([merged EXCEPT !.bt.to_process = << >>], w)
       IN  Apply(b, Continue(left, n), w)

Stage1Returns(b, response, w) == BulkReturns(b, 1, response, w)
Stage2Returns(b, response, w) == BulkReturns(b, 2, response, w)
Stage3Returns(b, response, w) == BulkReturns(b, 3, response, w)

\* call_chat_json of a bulk stage raises (lines 140-142, 194-196, 248-250)
BulkRaises(b) ==
    /\ Running
    /\ batches[b].pc \in {"s1_call", "s2_call", "s3_call"}
    /\ Abort(b, [Ctx(b) EXCEPT !.semaphore = @ - 1])

-----------------------------------------------------------------------------
(* Stage 4 tasks *)

\* the waiting task of the batch that the released slot of the Stage 4
\* semaphore goes to: the first one in list order, 0 when none waits
NextWaiting(c) ==
    LET waiting == {k \in 1..Len(c.bt.to_process) : c.tasks[c.bt.to_process[k]] = "wait"}
    IN  IF waiting = {} THEN 0
        ELSE c.bt.to_process[CHOOSE k \in waiting : \A h \in waiting : k <= h]

\* lines 291-301 and the exit of `async with semaphore`
ImagePromptReturns(j, text) ==
    /\ Running
    /\ tasks[j] = "call"
    /\ LET b == BatchOf(j)
           c1 == [Ctx(b) EXCEPT !.entries[j].image_prompt = text]
           c2 == Stage4Write(c1, c1.entries[j])
           c3 == [c2 EXCEPT !.tasks[j] = "done"]
           w == NextWaiting(c3)
       IN  Apply(b, IF w = 0 THEN c3
                    ELSE Called([c3 EXCEPT !.tasks[w] = "call"], << w >>, "image_prompt"),
                 0)

\* lines 303-305: call_chat raises in a task, gather re-raises it
ImagePromptRaises(j) ==
    /\ Running
    /\ tasks[j] = "call"
    /\ Abort(BatchOf(j), [Ctx(BatchOf(j)) EXCEPT !.tasks[j] = "raised"])

\* a wrong gather, over as soon as one task is done: C14 must tell it apart
Stage4GatheredEarly(b) ==
    /\ Running
    /\ batches[b].pc = "s4"
    /\ \E j \in Range(batches[b].to_process) : tasks[j] = "done"
    /\ Apply(b, run_stage_5_images([Ctx(b) EXCEPT !.bt.to_process = << >>]), 0)

\* line 309: gather returns when every task is done
Stage4Gathered(b) ==
    /\ Running
    /\ batches[b].pc = "s4"
    /\ \A j \in Range(batches[b].to_process) : tasks[j] = "done"
    /\ Apply(b, run_stage_5_images(
                  [Ctx(b) EXCEPT !.tasks = [j \in DOMAIN tasks |->
                        IF j \in Range(batches[b].to_process) THEN "idle" ELSE tasks[j]],
                      !.bt.to_process = << >>]), 0)

-----------------------------------------------------------------------------
(* Stage 5 steps *)

\* the entry at the loop position of batch b
Current(b) == batches[b].to_process[batches[b].i]

\* photos[:count] of search_pexels_images
Top(n, count) == IF n < count THEN n ELSE count

\* search_pexels_images finds n photos (none also for a missing key, a
\* non-200 answer or a transport error, which it swallows); lines 387-395
SearchReturns(b, n) ==
    /\ Running
    /\ batches[b].pc = "s5_search"
    /\ Apply(b, IF n = 0 THEN stage_5_after(Ctx(b), batches[b].i)
                ELSE Called([Ctx(b) EXCEPT !.bt.pc = "s5_download",
                                           !.bt.urls = Top(n, PexelsCount),
                                           !.bt.url = 1],
                            << Current(b) >>, "download"),
             0)

\* download_image returns a path (ok) or raises, which lines 399-400 absorb
DownloadReturns(b, ok) ==
    /\ Running
    /\ batches[b].pc = "s5_download"
    /\ LET bt == batches[b]
           files == IF ok THEN Append(bt.image_files, bt.url - 1) ELSE bt.image_files
       IN  Apply(b, IF bt.url < bt.urls
                    THEN [Ctx(b) EXCEPT !.bt.url = @ + 1, !.bt.image_files = files]
                    ELSE stage_5_after(
                           [Ctx(b) EXCEPT !.entries[Current(b)].image_files = Some(files)],
                           bt.i),
                 0)

\* generate_image returns the bytes; line 423 hands the write to the executor
GenerateReturns(b) ==
    /\ Running
    /\ batches[b].pc = "s5_generate"
    /\ Apply(b, [Ctx(b) EXCEPT !.bt.pc = "s5_write"], 0)

\* the file is written: line 428
WriteReturns(b) ==
    /\ Running
    /\ batches[b].pc = "s5_write"
    /\ Apply(b, stage_5_after(
                  [Ctx(b) EXCEPT !.entries[Current(b)].image_files = Some(<< 0 >>)],
                  batches[b].i), 0)

\* generate_image or the write raises: lines 431-458 and 371-373
ImageRaises(b) ==
    /\ Running
    /\ batches[b].pc \in {"s5_generate", "s5_write"}
    /\ Abort(b, Ctx(b))

\* asyncio.sleep(3) of line 369 is over
SleepReturns(b) ==
    /\ Running
    /\ batches[b].pc = "s5_sleep"
    /\ Apply(b, stage_5_item(Ctx(b), batches[b].i + 1), 0)

-----------------------------------------------------------------------------
(* The end of a run *)

\* a wrong flattening, last batch first: C35 must tell it apart
RECURSIVE FlattenReversed(_, _)
FlattenReversed(bs, b) ==
    IF b > Len(bs) THEN << >> ELSE FlattenReversed(bs, b + 1) \o bs[b].results

\* lines 51-54: the batch results in submission order
RECURSIVE Flatten(_, _)
Flatten(bs, b) ==
    IF b > Len(bs) THEN << >> ELSE bs[b].results \o Flatten(bs, b + 1)

\* gather has every batch result: process_batch returns, lines 49-57
Return ==
    /\ Running
    /\ \A b \in Batches : batches[b].pc = "done"
    /\ outcome' = "returned"
    /\ results' = Flatten(batches, 1)
    /\ prev' = Summary("returned", [db |-> db, entries |-> entries, calls |-> calls])
    /\ UNCHANGED << chat, loop_open, db, BATCH_SIZE, MAX_PARALLEL_REQUESTS, words, run, force,
                    test_mode, entries,
                    batches, semaphore, tasks, calls >>

Next ==
    \/ \E m \in Modes : ProcessBatch(m.force, m.test_mode)
    \/ \E b \in Batches : StartBatch(b)
    \/ \E b \in Batches, w \in Handoffs, r \in MetadataResponses : Stage1Returns(b, r, w)
    \/ \E b \in Batches, w \in Handoffs, r \in DefinitionResponses : Stage2Returns(b, r, w)
    \/ \E b \in Batches, w \in Handoffs, r \in ExampleResponses : Stage3Returns(b, r, w)
    \/ \E b \in Batches : BulkRaises(b)
    \/ \E j \in DOMAIN tasks, p \in ImagePrompts : ImagePromptReturns(j, p)
    \/ \E j \in DOMAIN tasks : ImagePromptRaises(j)
    \/ \E b \in Batches : Stage4Gathered(b)
    \/ \E b \in Batches, n \in 0..MaxUrls : SearchReturns(b, n)
    \/ \E b \in Batches, ok \in BOOLEAN : DownloadReturns(b, ok)
    \/ \E b \in Batches : GenerateReturns(b)
    \/ \E b \in Batches : WriteReturns(b)
    \/ \E b \in Batches : ImageRaises(b)
    \/ \E b \in Batches : SleepReturns(b)
    \/ Return

\* runs of one batch: BATCH_SIZE holds the whole word list
Spec == Init /\ [][Next]_vars

-----------------------------------------------------------------------------
(* Runs of several concurrent batches.  The collaborators answer in full:  *)
(* every bulk response holds one item per requested word, in request       *)
(* order, and the chat text of Stage 4 is a prompt.                        *)

\* BATCH_SIZE and word list of the runs: two words of one canonical form in
\* one batch, the same two in different batches, and a batch of four COMPLEX
\* words next to a batch of one
BatchRuns ==
    {[size |-> 2, words |-> <<"ljubavi", "ljubav", "kuca">>],
     [size |-> 2, words |-> <<"kuca", "ljubavi", "ljubav">>],
     [size |-> 4, words |-> <<"more", "nebo", "sunce", "zemlja", "kuca">>]}

\* the dictionary form and the type the metadata prompt yields for a word
Lemma(word) == IF word = "ljubavi" THEN "ljubav" ELSE word
Kind(word) == IF word = "kuca" THEN "SIMPLE" ELSE "COMPLEX"

FullMetadata(idx) ==
    [k \in 1..Len(idx) |->
        [word |-> entries[idx[k]].original,
         canonical_form |-> Lemma(entries[idx[k]].original),
         part_of_speech |-> "imenica",
         word_type |-> Kind(entries[idx[k]].original),
         translation |-> "love"]]

FullDefinitions(idx) ==
    [k \in 1..Len(idx) |-> [word |-> entries[idx[k]].original, definition |-> "osjecaj"]]

FullExamples(idx) ==
    [k \in 1..Len(idx) |->
        [word |-> entries[idx[k]].original, example_sentences |-> Sentences(3)]]

InitBatches ==
    /\ db = EmptyDb
    /\ \E r \in BatchRuns : BATCH_SIZE = r.size /\ words = r.words
    /\ MAX_PARALLEL_REQUESTS \in 1..MaxSlots
    /\ run = 0
    /\ force = FALSE
    /\ test_mode = FALSE
    /\ outcome = "idle"
    /\ entries = << >>
    /\ batches = << >>
    /\ semaphore = 0
    /\ tasks = << >>
    /\ calls = << >>
    /\ results = << >>
    /\ prev = NoRun
    /\ chat = NoChat
    /\ loop_open = FALSE

NextBatches ==
    \/ \E m \in Modes : ProcessBatch(m.force, m.test_mode)
    \/ \E b \in Batches : StartBatch(b)
    \/ \E b \in Batches : SemaphoreAcquired(b)
    \/ \E b \in Batches, w \in Handoffs :
          Stage1Returns(b, FullMetadata(batches[b].to_process), w)
    \/ \E b \in Batches, w \in Handoffs :
          Stage2Returns(b, FullDefinitions(batches[b].to_process), w)
    \/ \E b \in Batches, w \in Handoffs :
          Stage3Returns(b, FullExamples(batches[b].to_process), w)
    \/ \E b \in Batches : BulkRaises(b)
    \/ \E j \in DOMAIN tasks : ImagePromptReturns(j, "two hands")
    \/ \E j \in DOMAIN tasks : ImagePromptRaises(j)
    \/ \E b \in Batches : Stage4Gathered(b)
    \/ \E b \in Batches, n \in {0, MaxUrls} : SearchReturns(b, n)
    \/ \E b \in Batches, ok \in BOOLEAN : DownloadReturns(b, ok)
    \/ \E b \in Batches : GenerateReturns(b)
    \/ \E b \in Batches : WriteReturns(b)
    \/ \E b \in Batches : ImageRaises(b)
    \/ \E b \in Batches : SleepReturns(b)
    \/ Return

SpecBatches == InitBatches /\ [][NextBatches]_vars

\* the guards of the steps of NextBatches: process_batch can be called, a
\* coroutine of the run is ready to run, or an awaited call, timer or file
\* write of the run is outstanding
CanStep ==
    \/ /\ outcome # "running"
       /\ run < MaxRuns
       /\ run = 0 \/ (run + 1) * Len(words) <= MaxEntries
    \/ /\ outcome = "running"
       /\ \E b \in Batches : batches[b].pc = "start"
    \/ /\ Running
       /\ \/ \E b \in Batches :
                \/ batches[b].pc \in WaitPcs /\ semaphore < MAX_PARALLEL_REQUESTS
                \/ batches[b].pc \in {"s1_call", "s2_call", "s3_call"}
                \/ batches[b].pc = "s4" /\
                      \A j \in Range(batches[b].to_process) : tasks[j] = "done"
                \/ batches[b].pc \in
                      {"s5_search", "s5_download", "s5_generate", "s5_write", "s5_sleep"}
          \/ \E j \in DOMAIN tasks : tasks[j] = "call"
          \/ \A b \in Batches : batches[b].pc = "done"

\* weak fairness of the steps of the run, with the enabling condition
\* written out: every step changes the state, and CanStep holds exactly
\* where one can be taken
StepsFair == []<>(~CanStep) \/ []<><<TRUE>>_vars

\* the same runs under the scheduling of the event loop: a coroutine that
\* can run is run, every awaited call returns or raises in the end, and
\* gather hands over the results once every batch is done
LiveBatches == SpecBatches /\ StepsFair /\ WF_vars(Return)

-----------------------------------------------------------------------------
(* A run of two batches that are both large enough to fill their Stage 4   *)
(* pool: four COMPLEX words, then three COMPLEX words and a SIMPLE one.    *)

PoolRun ==
    [size |-> 4,
     words |-> <<"more", "nebo", "sunce", "zemlja", "voda", "vatra", "zrak", "kuca">>]

InitPools ==
    /\ db = EmptyDb
    /\ BATCH_SIZE = PoolRun.size
    /\ words = PoolRun.words
    /\ MAX_PARALLEL_REQUESTS \in 1..MaxSlots
    /\ run = 0
    /\ force = FALSE
    /\ test_mode = FALSE
    /\ outcome = "idle"
    /\ entries = << >>
    /\ batches = << >>
    /\ semaphore = 0
    /\ tasks = << >>
    /\ calls = << >>
    /\ results = << >>
    /\ prev = NoRun
    /\ chat = NoChat
    /\ loop_open = FALSE

SpecPools == InitPools /\ [][NextBatches]_vars

-----------------------------------------------------------------------------
(* Runs of several batches awaited by a caller whose event loop keeps      *)
(* running when process_batch has raised: the coroutines that gather left  *)
(* behind are still scheduled.                                             *)

InitSiblings ==
    /\ db = EmptyDb
    /\ \E r \in BatchRuns : BATCH_SIZE = r.size /\ words = r.words
    /\ MAX_PARALLEL_REQUESTS \in 1..MaxSlots
    /\ run = 0
    /\ force = FALSE
    /\ test_mode = FALSE
    /\ outcome = "idle"
    /\ entries = << >>
    /\ batches = << >>
    /\ semaphore = 0
    /\ tasks = << >>
    /\ calls = << >>
    /\ results = << >>
    /\ prev = NoRun
    /\ chat = NoChat
    /\ loop_open = TRUE

SpecSiblings == InitSiblings /\ [][NextBatches]_vars

-----------------------------------------------------------------------------
(* The chunking of process_batch, lines 38-49: word lists of every length  *)
(* up to MaxWords under small batch sizes and the default one.  The batch  *)
(* coroutines run up to their first suspension, and a run without a batch  *)
(* returns at once.                                                        *)

\* a list of n words
WordsOf(n) == [k \in 1..n |-> IF k % 2 = 1 THEN "ljubav" ELSE "ljubavi"]

BatchSizes == {1, 2, 3, DefaultBatchSize}

InitChunks ==
    /\ db = EmptyDb
    /\ BATCH_SIZE \in BatchSizes
    /\ MAX_PARALLEL_REQUESTS = 1
    /\ \E n \in 0..MaxWords : words = WordsOf(n)
    /\ run = 0
    /\ force = FALSE
    /\ test_mode = FALSE
    /\ outcome = "idle"
    /\ entries = << >>
    /\ batches = << >>
    /\ semaphore = 0
    /\ tasks = << >>
    /\ calls = << >>
    /\ results = << >>
    /\ prev = NoRun
    /\ chat = NoChat
    /\ loop_open = FALSE

NextChunks ==
    \/ \E m \in Modes : ProcessBatch(m.force, m.test_mode)
    \/ \E b \in Batches : StartBatch(b)
    \/ Return

SpecChunks == InitChunks /\ [][NextChunks]_vars

-----------------------------------------------------------------------------
(* Runs in which the history database fails.  sqlite3 raises inside        *)
(* get_word_status or update_word_status (utils.py 57-86), which catch     *)
(* nothing; the callers in pipeline.py either catch nothing (the filters,  *)
(* the results loop) or log and re-raise (the merges, the Stage 4 task,    *)
(* the Stage 5 loop), so the exception leaves _process_batch.              *)

\* the stores the runs start from: a new one, and one a run over "kuca" left
Stores ==
    {EmptyDb,
     [rows |-> [k \in {"kuca"} |-> StageStatus(TRUE, FALSE, FALSE, FALSE, TRUE)],
      nulls |-> {}]}

\* the access raises in the step of batch b that has reached c
StoreRaises(b, c) == Abort(b, [c EXCEPT !.bt.store_error = TRUE])

\* a wrong Stage 1 filter, which takes a failed read for a missing row and
\* selects the word: C18 must tell it apart
Stage1ReadAbsent(b) ==
    /\ outcome = "running"
    /\ batches[b].pc = "start"
    /\ \A x \in Batches : x < b => batches[x].pc # "start"
    /\ ~test_mode /\ ~force
    /\ Apply(b, IssueBulk([Ctx(b) EXCEPT
                              !.bt.to_process = Indices(batches[b].lo, batches[b].hi),
                              !.bt.store_error = TRUE], 1), 0)

\* line 100: the read of the Stage 1 filter raises; test_mode and force
\* short-circuit the read
Stage1ReadRaises(b) ==
    /\ outcome = "running"
    /\ batches[b].pc = "start"
    /\ \A x \in Batches : x < b => batches[x].pc # "start"
    /\ ~test_mode /\ ~force
    /\ StoreRaises(b, Ctx(b))

\* lines 136-138, 187-192, 241-246: the store access for item k of the bulk
\* response raises, after the items before it were merged and the entity of
\* item k was given its fields; `async with` releases the slot
MergeRaises(b, n, response, k) ==
    /\ Running
    /\ batches[b].pc = CallPc(n)
    /\ ~test_mode
    /\ k \in 1..Len(response)
    /\ LET before == Merge(Ctx(b), n, SubSeq(response, 1, k - 1), 1)
       IN  /\ FirstMatch(before, response[k].word) # 0
           /\ StoreRaises(b, [MergeItem(before, n, response[k]) EXCEPT
                                 !.db = before.db, !.semaphore = @ - 1])

\* lines 154, 208, 262, 325, 85: after the merge of bulk stage n, a read of
\* the filters that follow, or of the results loop, raises
FilterReadRaises(b, n, response) ==
    /\ Running
    /\ batches[b].pc = CallPc(n)
    /\ ~test_mode
    /\ StoreRaises(b, [Merge(Ctx(b), n, response, 1) EXCEPT
                          !.semaphore = @ - 1, !.bt.to_process = << >>])

\* lines 297-301: the store access of a Stage 4 task raises after the entity
\* was given its prompt; gather re-raises it
PromptWriteRaises(j, text) ==
    /\ Running
    /\ tasks[j] = "call"
    /\ ~test_mode
    /\ StoreRaises(BatchOf(j), [Ctx(BatchOf(j)) EXCEPT
                                   !.entries[j].image_prompt = text,
                                   !.tasks[j] = "raised"])

\* lines 325, 85: a read of the Stage 5 filter or of the results loop raises
\* once the Stage 4 tasks are gathered
Stage5ReadRaises(b) ==
    /\ Running
    /\ batches[b].pc = "s4"
    /\ \A j \in Range(batches[b].to_process) : tasks[j] = "done"
    /\ ~test_mode
    /\ StoreRaises(b, Ctx(b))

\* lines 359-362: the completion access of Stage 5 raises, the entity holding
\* its generated file; lines 371-373 re-raise
ImageWriteRaises(b) ==
    /\ Running
    /\ batches[b].pc = "s5_write"
    /\ ~test_mode
    /\ StoreRaises(b, [Ctx(b) EXCEPT !.entries[Current(b)].image_files = Some(<< 0 >>)])

\* line 344: the read for the next item raises when the pause is over
LoopReadRaises(b) ==
    /\ Running
    /\ batches[b].pc = "s5_sleep"
    /\ ~test_mode
    /\ StoreRaises(b, Ctx(b))

InitStore ==
    /\ db \in Stores
    /\ \E r \in BatchRuns : BATCH_SIZE = r.size /\ words = r.words
    /\ MAX_PARALLEL_REQUESTS \in 1..MaxSlots
    /\ run = 0
    /\ force = FALSE
    /\ test_mode = FALSE
    /\ outcome = "idle"
    /\ entries = << >>
    /\ batches = << >>
    /\ semaphore = 0
    /\ tasks = << >>
    /\ calls = << >>
    /\ results = << >>
    /\ prev = NoRun
    /\ chat = NoChat
    /\ loop_open = FALSE

StoreFails ==
    \/ \E b \in Batches : Stage1ReadRaises(b)
    \/ \E b \in Batches, k \in 1..BATCH_SIZE :
          MergeRaises(b, 1, FullMetadata(batches[b].to_process), k)
    \/ \E b \in Batches, k \in 1..BATCH_SIZE :
          MergeRaises(b, 2, FullDefinitions(batches[b].to_process), k)
    \/ \E b \in Batches, k \in 1..BATCH_SIZE :
          MergeRaises(b, 3, FullExamples(batches[b].to_process), k)
    \/ \E b \in Batches : FilterReadRaises(b, 1, FullMetadata(batches[b].to_process))
    \/ \E b \in Batches : FilterReadRaises(b, 2, FullDefinitions(batches[b].to_process))
    \/ \E b \in Batches : FilterReadRaises(b, 3, FullExamples(batches[b].to_process))
    \/ \E j \in DOMAIN tasks : PromptWriteRaises(j, "two hands")
    \/ \E b \in Batches : Stage5ReadRaises(b)
    \/ \E b \in Batches : ImageWriteRaises(b)
    \/ \E b \in Batches : LoopReadRaises(b)

NextStore == NextBatches \/ StoreFails

SpecStore == InitStore /\ [][NextStore]_vars

-----------------------------------------------------------------------------
(* call_chat, openai_client.py 29-72: one invocation and its attempts      *)

\* stop_after_attempt(5)
StopAfterAttempt == 5

\* the exceptions an attempt can end with: those of the openai package for
\* a 429, a timeout, a transport failure, a 5xx and a 400 answer, and one
\* that is no API error (response.choices[0] of an empty list, line 59)
AttemptErrors ==
    {"RateLimitError", "APITimeoutError", "APIConnectionError",
     "InternalServerError", "BadRequestError", "IndexError"}

\* the base class of an exception class, in the openai package
Base(cls) ==
    CASE cls \in {"RateLimitError", "InternalServerError", "BadRequestError"}
            -> "APIStatusError"
      [] cls = "APITimeoutError" -> "APIConnectionError"
      [] cls \in {"APIStatusError", "APIConnectionError"} -> "APIError"
      [] OTHER -> "Exception"

\* isinstance(e, cls)
RECURSIVE IsInstance(_, _)
IsInstance(e, cls) ==
    \/ e = cls
    \/ e # "Exception" /\ IsInstance(Base(e), cls)

\* retry_if_exception_type((...)), lines 33-38
RetryTypes == {"RateLimitError", "APITimeoutError", "APIConnectionError", "APIError"}
Retries(e) == \E cls \in RetryTypes : IsInstance(e, cls)

\* the attributes of tenacity.RetryError
RetryErrorAttrs == {"last_attempt"}

\* lines 62-69: the handler of RetryError evaluates the arguments of
\* log.error, e.retry_state among them, before it raises actual_exception
HandleRetryError(errors) ==
    IF "retry_state" \in RetryErrorAttrs THEN errors[Len(errors)]
    ELSE "AttributeError"

pipeline == << db, BATCH_SIZE, MAX_PARALLEL_REQUESTS, words, run, force, test_mode,
               outcome, entries, batches, semaphore, tasks, calls, results, prev,
               loop_open >>

\* the invocation ch after its attempt raised e
AttemptRaised(ch, e) ==
    LET errors == Append(ch.errors, e)
    IN  IF ~Retries(e)
        THEN [ch EXCEPT !.pc = "raised", !.errors = errors, !.raised = e]
        ELSE IF Len(errors) >= StopAfterAttempt
        THEN [ch EXCEPT !.pc = "raised", !.errors = errors,
                        !.raised = HandleRetryError(errors)]
        ELSE [ch EXCEPT !.pc = "wait", !.errors = errors, !.raised = None]

\* call_chat(model, messages) starts its first attempt, line 61
CallChat ==
    /\ chat.pc = "idle"
    /\ chat' = [chat EXCEPT !.pc = "attempt"]
    /\ UNCHANGED pipeline

\* client.chat.completions.create answers: call_chat returns the content
AttemptReturns ==
    /\ chat.pc = "attempt"
    /\ chat' = [chat EXCEPT !.pc = "returned"]
    /\ UNCHANGED pipeline

\* the attempt raises e: tenacity waits for the next attempt, or gives up
\* with RetryError after the last one, or lets e through when the retry
\* test does not hold for it (lines 70-72 log and re-raise it)
AttemptRaises(e) ==
    /\ chat.pc = "attempt"
    /\ chat' = AttemptRaised(chat, e)
    /\ UNCHANGED pipeline

\* the wait of wait_exponential_jitter is over: the next attempt starts
BackoffOver ==
    /\ chat.pc = "wait"
    /\ chat' = [chat EXCEPT !.pc = "attempt"]
    /\ UNCHANGED pipeline

InitChat ==
    /\ db = EmptyDb
    /\ BATCH_SIZE = 2
    /\ MAX_PARALLEL_REQUESTS = 1
    /\ words = << >>
    /\ run = 0
    /\ force = FALSE
    /\ test_mode = FALSE
    /\ outcome = "idle"
    /\ entries = << >>
    /\ batches = << >>
    /\ semaphore = 0
    /\ tasks = << >>
    /\ calls = << >>
    /\ results = << >>
    /\ prev = NoRun
    /\ chat = NoChat
    /\ loop_open = FALSE

NextChat ==
    \/ CallChat
    \/ AttemptReturns
    \/ \E e \in AttemptErrors : AttemptRaises(e)
    \/ BackoffOver

SpecChat == InitChat /\ [][NextChat]_vars

-----------------------------------------------------------------------------
(* call_chat_json, openai_client.py 75-94: one call of call_chat, then the *)
(* cleaning of its text and json.loads, all in the step that call_chat     *)
(* returns in.  A text is a sequence of tokens: white space, the opening   *)
(* fence with its json label, the bare fence of three backquotes, the text *)
(* of a JSON array, and prose.                                             *)

Tokens == {"ws", "fence_json", "fence", "array", "prose"}
Texts == SeqsUpTo(Tokens, MaxTokens)

\* message.content of a completion without text: None, which is no text
NoContent == << None >>
Contents == Texts \cup {NoContent}

\* str.strip()
RECURSIVE LStrip(_), RStrip(_)
LStrip(t) == IF t # << >> /\ Head(t) = "ws" THEN LStrip(Tail(t)) ELSE t
RStrip(t) ==
    IF t # << >> /\ t[Len(t)] = "ws" THEN RStrip(SubSeq(t, 1, Len(t) - 1)) ELSE t
Strip(t) == RStrip(LStrip(t))

\* lines 81-86
Clean(t) ==
    LET r1 == Strip(t)
        r2 == IF r1 # << >> /\ Head(r1) = "fence_json" THEN Tail(r1) ELSE r1
        r3 == IF r2 # << >> /\ r2[Len(r2)] = "fence"
              THEN SubSeq(r2, 1, Len(r2) - 1) ELSE r2
    IN  Strip(r3)

\* json.loads(t) returns: t is one JSON value
Loads(t) == t = << "array" >>

\* a wrong handler, which wraps every exception: C33 must tell it apart
JsonHandlerWraps(e) == "ValueError"

\* lines 89-94: the except clauses of call_chat_json
JsonHandler(e) == IF IsInstance(e, "JSONDecodeError") THEN "ValueError" ELSE e

\* lines 80-88: what the body does with the content call_chat returned;
\* None has no strip()
ParseRaises(content) ==
    IF content = NoContent THEN "AttributeError"
    ELSE IF Loads(Clean(content)) THEN None
    ELSE "JSONDecodeError"

\* no call_chat_json invocation yet: returned counts the attempts that
\* returned, content is what call_chat returned, json_raised the exception
\* call_chat_json ended with
NoJson ==
    [pc |-> "idle", errors |-> << >>, raised |-> None, returned |-> 0,
     content |-> NoList, json_raised |-> None]

\* call_chat_json(model, messages) calls call_chat, line 78
CallChatJson ==
    /\ chat.pc = "idle"
    /\ chat' = [chat EXCEPT !.pc = "attempt"]
    /\ UNCHANGED pipeline

\* the attempt returns the content: call_chat returns it, call_chat_json
\* returns the parsed list or raises
JsonAttemptReturns(content) ==
    /\ chat.pc = "attempt"
    /\ LET e == ParseRaises(content)
       IN  chat' = [chat EXCEPT !.returned = @ + 1,
                                !.content = Some(content),
                                !.pc = IF e = None THEN "returned" ELSE "raised",
                                !.json_raised = IF e = None THEN None ELSE JsonHandler(e)]
    /\ UNCHANGED pipeline

\* the attempt raises e: call_chat waits for the next attempt, or raises,
\* and call_chat_json handles what call_chat raised
JsonAttemptRaises(e) ==
    /\ chat.pc = "attempt"
    /\ LET after == AttemptRaised(chat, e)
       IN  chat' = IF after.pc = "raised"
                   THEN [after EXCEPT !.json_raised = JsonHandler(after.raised)]
                   ELSE after
    /\ UNCHANGED pipeline

InitJson ==
    /\ db = EmptyDb
    /\ BATCH_SIZE = 2
    /\ MAX_PARALLEL_REQUESTS = 1
    /\ words = << >>
    /\ run = 0
    /\ force = FALSE
    /\ test_mode = FALSE
    /\ outcome = "idle"
    /\ entries = << >>
    /\ batches = << >>
    /\ semaphore = 0
    /\ tasks = << >>
    /\ calls = << >>
    /\ results = << >>
    /\ prev = NoRun
    /\ chat = NoJson
    /\ loop_open = FALSE

NextJson ==
    \/ CallChatJson
    \/ \E content \in Contents : JsonAttemptReturns(content)
    \/ \E e \in AttemptErrors : JsonAttemptRaises(e)
    \/ BackoffOver

SpecJson == InitJson /\ [][NextJson]_vars

-----------------------------------------------------------------------------
(* The completion writes of Stages 2-5 as functions of the store: each is  *)
(* applied to one entity that has passed the stage, over a store that has  *)
(* any status with the metadata flag, or none, under the key "ljubav".     *)

\* the statuses with the metadata flag on
StoredStatuses ==
    {StageStatus(TRUE, d, e, p, g) : d, e, p, g \in BOOLEAN}

WriteStores ==
    {EmptyDb} \cup
    {[rows |-> [k \in {"ljubav"} |-> st], nulls |-> {}] : st \in StoredStatuses}

\* a COMPLEX entity with the fields of every stage
PassedEntry(k) ==
    [WordEntry("ljubav") EXCEPT
        !.canonical_form = k, !.part_of_speech = "imenica", !.word_type = "COMPLEX",
        !.translation = "love", !.definition = "osjecaj",
        !.example_sentences = Some(Sentences(3)), !.image_prompt = "two hands",
        !.image_files = Some(<< 0 >>)]

InitWrites ==
    /\ db \in WriteStores
    /\ BATCH_SIZE = 2
    /\ MAX_PARALLEL_REQUESTS = 1
    /\ words = << "ljubav" >>
    /\ run = 1
    /\ force = FALSE
    /\ test_mode = FALSE
    /\ outcome = "running"
    /\ \E k \in CanonicalForms : entries = << PassedEntry(k) >>
    /\ batches = << [NewBatch(1, 1) EXCEPT !.to_process = << 1 >>] >>
    /\ semaphore = 0
    /\ tasks = << "idle" >>
    /\ calls = << {} >>
    /\ results = << >>
    /\ prev = NoRun
    /\ chat = NoChat
    /\ loop_open = FALSE

\* the completion write of Stage n for the entity: lines 182-192, 236-246,
\* 297-301 and 357-362
Written(n) ==
    CASE n = 2 -> MergeDefinition(Ctx(1), [word |-> "ljubav", definition |-> "osjecaj"])
      [] n = 3 -> MergeExamples(Ctx(1), [word |-> "ljubav",
                                         example_sentences |-> Sentences(3)])
      [] n = 4 -> Stage4Write(Ctx(1), entries[1])
      [] n = 5 -> Stage5Write(Ctx(1), entries[1])

CompletionWrite(n) ==
    /\ db' = Written(n).db
    /\ entries' = Written(n).entries
    /\ UNCHANGED << chat, loop_open, BATCH_SIZE, MAX_PARALLEL_REQUESTS, words, run, force,
                    test_mode, outcome, batches, semaphore, tasks, calls, results, prev >>

NextWrites == \E n \in 2..5 : CompletionWrite(n)

SpecWrites == InitWrites /\ [][NextWrites]_vars

-----------------------------------------------------------------------------
(* Vocabulary of the properties *)

BulkKinds == {"metadata", "definition", "examples"}
ImageKinds == {"search", "download", "generate"}
ComplexKinds == {"definition", "examples", "image_prompt"}
Stage5Pcs == {"s5_search", "s5_download", "s5_generate", "s5_write", "s5_sleep"}

Entries == DOMAIN entries

\* a second or later run in progress, without force and outside test mode
Rerun == run >= 2 /\ outcome = "running" /\ ~force /\ ~test_mode

\* the batch of entry j has run all its stages
Done(j) == batches[BatchOf(j)].pc = "done"

\* the previous run persisted every stage that applies to word j
PrevComplete(j) ==
    LET p == prev.words[j]
    IN  /\ p.canonical_form # None
        /\ p.word_type \in {"SIMPLE", "COMPLEX"}
        /\ p.stage_status.metadata
        /\ p.stage_status.image_generation
        /\ p.word_type = "COMPLEX" =>
              /\ p.stage_status.definition
              /\ p.stage_status.examples
              /\ p.stage_status.image_prompt

\* the previous run persisted Stages 1-3 of the COMPLEX word j and ended
\* before its Stage 4
PrevStoppedBeforeStage4(j) ==
    LET p == prev.words[j]
    IN  /\ prev.outcome = "raised"
        /\ p.canonical_form # None
        /\ p.word_type = "COMPLEX"
        /\ p.stage_status = StageStatus(TRUE, TRUE, TRUE, FALSE, FALSE)

-----------------------------------------------------------------------------
(* C1 - Idempotence: after a force=false run that completed and persisted  *)
(* every applicable stage of a word, a second force=false run over the     *)
(* same word list issues no external call for that word.                   *)
C1_Idempotence ==
    (Rerun /\ prev.outcome = "returned" /\ ~prev.force /\ ~prev.test_mode) =>
        \A j \in Entries : PrevComplete(j) => calls[j] = {}

(* C2 - Resume: when an earlier run persisted metadata, definition and     *)
(* examples of a COMPLEX word and stopped before Stage 4, a later          *)
(* force=false run issues no Stage 1-3 call for the word, and has issued   *)
(* its Stage 4 and Stage 5 calls once its batch is through.                *)
C2_Resume ==
    (Rerun /\ ~prev.test_mode) =>
        \A j \in Entries : PrevStoppedBeforeStage4(j) =>
            /\ calls[j] \cap BulkKinds = {}
            /\ Done(j) => {"image_prompt", "generate"} \subseteq calls[j]

(* C3 - Flag monotonicity: a stage flag that is true in the database for a *)
(* canonical form is true there after every step, in every run.            *)
C3_FlagsMonotonic ==
    [][\A k \in DOMAIN db.rows : \A flag \in Flags :
          db.rows[k][flag] => (k \in DOMAIN db'.rows /\ db'.rows[k][flag])]_vars

-----------------------------------------------------------------------------
(* Positions of a batch relative to its stages *)

Past1 == {"s2_wait", "s2_call", "s3_wait", "s3_call", "s4"} \cup Stage5Pcs \cup {"done"}
Past2 == Past1 \ {"s2_wait", "s2_call"}
Past3 == Past2 \ {"s3_wait", "s3_call"}
Past4 == Past3 \ {"s4"}

Pc(j) == batches[BatchOf(j)].pc

\* entity j is in the to-process list of the stage its batch is in
Selected(j) == j \in Range(batches[BatchOf(j)].to_process)

\* the input of the Stage 5 branch of entity j is there
HasBranchInput(j) ==
    IF entries[j].word_type = "SIMPLE" THEN TruthyStr(entries[j].translation)
    ELSE TruthyStr(entries[j].image_prompt)

\* no other entity of the run has the canonical form of entity j
Unshared(j) ==
    \A k \in Entries : k # j => entries[k].canonical_form # entries[j].canonical_form

-----------------------------------------------------------------------------
(* C4 - Force override, as the code has it: in a run with force=true       *)
(* Stage 1 calls for every entity, Stages 2, 3 and 4 call for every        *)
(* COMPLEX entity and Stage 5 selects every entity with a canonical_form,  *)
(* whatever flags are persisted; Stage 5 has issued its search or          *)
(* generation call for each selected entity whose branch input (the        *)
(* translation of a SIMPLE word, the image prompt otherwise) is not empty. *)
C4_ForceOverride ==
    (force /\ ~test_mode) => \A j \in Entries :
        /\ Pc(j) \notin {"start", "raised"} => "metadata" \in calls[j]
        /\ (Pc(j) \in Past1 /\ entries[j].word_type = "COMPLEX") =>
              "definition" \in calls[j]
        /\ (Pc(j) \in Past2 /\ entries[j].word_type = "COMPLEX") =>
              "examples" \in calls[j]
        /\ (Pc(j) \in Past4 /\ entries[j].word_type = "COMPLEX") =>
              "image_prompt" \in calls[j]
        /\ (Pc(j) \in Stage5Pcs /\ TruthyStr(entries[j].canonical_form)) => Selected(j)
        /\ (Pc(j) = "done" /\ TruthyStr(entries[j].canonical_form) /\ HasBranchInput(j)) =>
              calls[j] \cap {"search", "generate"} # {}

\* a forced second run went through all stages of a word whose flags the
\* first run had persisted under its original spelling
C4_Witness ==
    /\ force /\ ~test_mode /\ run = 2
    /\ 1 \in Entries
    /\ prev.words[1].canonical_form = words[1]
    /\ prev.words[1].stage_status = StageStatus(TRUE, TRUE, TRUE, TRUE, TRUE)
    /\ Pc(1) = "done"
    /\ {"metadata", "definition", "examples", "image_prompt", "generate"} \subseteq calls[1]

\* C4 as stated: in a forced run every stage issues its external call for
\* every eligible entity, Stage 5 for every entity with a canonical_form
C4_ForceIssuesEveryCall ==
    (force /\ ~test_mode) => \A j \in Entries :
        /\ Pc(j) \notin {"start", "raised"} => "metadata" \in calls[j]
        /\ (Pc(j) \in Past4 /\ entries[j].word_type = "COMPLEX") =>
              ComplexKinds \subseteq calls[j]
        /\ (Pc(j) = "done" /\ TruthyStr(entries[j].canonical_form)) =>
              calls[j] \cap {"search", "generate"} # {}

-----------------------------------------------------------------------------
(* C5 - An entity without a canonical_form is never in the to-process list *)
(* of Stage 5, and no stock-photo search, download or image generation     *)
(* call is issued for it, in forced runs as in the others.                 *)
C5_NoCanonicalNoStage5 ==
    \A j \in Entries : entries[j].canonical_form = None =>
        /\ calls[j] \cap ImageKinds = {}
        /\ Pc(j) \in Stage5Pcs => ~Selected(j)

\* a forced run is in Stage 5 with an entity that Stage 1 classified without
\* giving it a canonical_form
C5_Witness ==
    /\ force
    /\ \E j \in Entries :
          /\ entries[j].canonical_form = None
          /\ entries[j].word_type = "COMPLEX"
          /\ Pc(j) \in Stage5Pcs

(* C6 - An entity without a canonical_form after Stage 1 is left out of    *)
(* Stages 2-5: no call of those stages includes it, and no completion flag *)
(* of those stages is written for it (here: under the NULL key).           *)
C6_NoCanonicalStopsAtStage1 ==
    /\ \A j \in Entries : (Pc(j) \in Past1 /\ entries[j].canonical_form = None) =>
          calls[j] \cap (ComplexKinds \cup ImageKinds) = {}
    /\ \A status \in db.nulls :
          \A flag \in Flags \ {"metadata"} : ~status[flag]

(* C7 - SIMPLE branch: an entity whose word_type is SIMPLE has definition, *)
(* example_sentences and image_prompt unset, is in no Stage 2, 3 or 4 call *)
(* and gets no image generation call.                                      *)
C7_SimpleBranch ==
    \A j \in Entries : entries[j].word_type = "SIMPLE" =>
        /\ entries[j].definition = None
        /\ entries[j].example_sentences = NoList
        /\ entries[j].image_prompt = None
        /\ calls[j] \cap (ComplexKinds \cup {"generate"}) = {}

\* a SIMPLE word went through Stage 5 by the stock-photo path and has files
C7_Witness ==
    \E j \in Entries :
        /\ entries[j].word_type = "SIMPLE"
        /\ Pc(j) = "done"
        /\ {"search", "download"} \subseteq calls[j]
        /\ TruthyList(entries[j].image_files)

\* the responses of the calls issued for entity j held an item for it with
\* the field of the stage, and its image prompt text was not blank
Answered(j) ==
    /\ "definition" \in calls[j] => entries[j].definition # None
    /\ "examples" \in calls[j] => entries[j].example_sentences # NoList
    /\ "image_prompt" \in calls[j] => TruthyStr(entries[j].image_prompt)

\* what C8 promises of the COMPLEX entity j at the end of the run
ComplexOutcome(j) ==
    /\ ComplexKinds \subseteq calls[j]
    /\ entries[j].definition # None
    /\ entries[j].example_sentences # NoList
    /\ entries[j].image_prompt # None
    /\ TruthyList(entries[j].image_files)
    /\ "generate" \in calls[j]
    /\ "search" \notin calls[j]

(* C8 - COMPLEX branch, as the code has it: when a run returns, an entity  *)
(* classified COMPLEX with a canonical_form that (unless the run is forced *)
(* or in test mode) no other entity of the run shares, whose responses     *)
(* held its fields and whose prompt text was not blank, has been through   *)
(* Stages 2, 3 and 4, has definition, example_sentences, image_prompt and  *)
(* image_files set, and had image generation and no stock-photo search.    *)
C8_ComplexBranch ==
    outcome = "returned" => \A j \in Entries :
        ( /\ entries[j].word_type = "COMPLEX"
          /\ TruthyStr(entries[j].canonical_form)
          /\ force \/ test_mode \/ Unshared(j)
          /\ Answered(j) ) => ComplexOutcome(j)

\* an unforced run returned with a COMPLEX word that has its generated image
C8_Witness ==
    /\ outcome = "returned" /\ ~force /\ ~test_mode
    /\ \E j \in Entries :
          /\ entries[j].word_type = "COMPLEX"
          /\ Unshared(j)
          /\ ComplexOutcome(j)

\* C8 as stated: every entity classified COMPLEX whose responses held it
C8_EveryComplexGetsAll ==
    outcome = "returned" => \A j \in Entries :
        ( /\ entries[j].word_type = "COMPLEX"
          /\ "definition" \in calls[j] => entries[j].definition # None
          /\ "examples" \in calls[j] => entries[j].example_sentences # NoList )
        => ComplexOutcome(j)

-----------------------------------------------------------------------------
\* the status persisted for entity j
Persisted(j) == StatusOr(db, entries[j].canonical_form, DefaultStatus)

\* Stage 2 or 3 of this run called for entity j and its response held no
\* item for it: the field is unset and the flag under its key is off
OmittedUntouched(j, past, kind, field, unset) ==
    ( /\ ~test_mode
      /\ Pc(j) \in past
      /\ kind \in calls[j]
      /\ entries[j][field] = unset
      /\ TruthyStr(entries[j].canonical_form)
      /\ Unshared(j) ) => ~Persisted(j)[kind]

\* the previous run returned, its Stage 2 had called for word j and left
\* the definition flag off: this run selects the word again
SelectedAgain(j) ==
    ( /\ prev.outcome = "returned"
      /\ ~prev.test_mode
      /\ prev.words[j].canonical_form # None
      /\ "definition" \in prev.words[j].calls
      /\ ~prev.words[j].stage_status.definition
      /\ Pc(j) = "done" ) => calls[j] \cap {"metadata", "definition"} # {}

(* C9 - Response merge: a word that a Stage 2 or Stage 3 response omits    *)
(* keeps its field unset and gets no completion flag, and the next         *)
(* force=false run selects it again.                                       *)
C9_ResponseMerge ==
    /\ \A j \in Entries :
          /\ OmittedUntouched(j, Past2, "definition", "definition", None)
          /\ OmittedUntouched(j, Past3, "examples", "example_sentences", NoList)
    /\ Rerun => \A j \in Entries : SelectedAgain(j)

\* Stage 1 gave entity j a type, a canonical form and a translation
Classified(j) == entries[j].word_type \in {"SIMPLE", "COMPLEX"}

\* what C10 promises of the returned list
EndToEnd ==
    /\ Len(results) = Len(words)
    /\ \A j \in Entries :
          /\ results[j].word.original = words[j]
          /\ results[j].stage_status.metadata
          /\ results[j].stage_status.definition <=> entries[j].word_type = "COMPLEX"
          /\ entries[j].word_type = "SIMPLE" =>
                /\ calls[j] \cap ComplexKinds = {}
                /\ "search" \in calls[j]

(* C10 - End-to-end statuses, as the code has them: when a non-test run on *)
(* an empty store returns, Stage 1 having given every word a type, a       *)
(* translation and a canonical form of its own, and Stage 2 a definition   *)
(* to every COMPLEX word, the result list has one entry per input word in  *)
(* input order, each with metadata true and with definition true exactly   *)
(* for the COMPLEX words; a SIMPLE word is in no Stage 2-4 call and has    *)
(* had its stock-photo search.                                             *)
C10_EndToEnd ==
    ( /\ outcome = "returned" /\ run = 1 /\ ~test_mode
      /\ \A j \in Entries :
            /\ Classified(j)
            /\ TruthyStr(entries[j].canonical_form)
            /\ TruthyStr(entries[j].translation)
            /\ Unshared(j)
            /\ entries[j].word_type = "COMPLEX" => entries[j].definition # None )
    => EndToEnd

\* the run of a SIMPLE and a COMPLEX word has returned
C10_Witness ==
    /\ outcome = "returned" /\ run = 1 /\ ~test_mode
    /\ Len(results) = 2
    /\ entries[1].word_type = "SIMPLE" /\ entries[2].word_type = "COMPLEX"
    /\ Unshared(1)
    /\ "search" \in calls[1]
    /\ ~results[1].stage_status.definition
    /\ results[2].stage_status.definition

\* C10 as stated: Stage 1 classifies every word and all calls succeed
C10_ClassifiedRunStatuses ==
    ( /\ outcome = "returned" /\ run = 1 /\ ~test_mode
      /\ \A j \in Entries : Classified(j) ) => EndToEnd

-----------------------------------------------------------------------------
(* C11 - Rate-limit delay, as the code has it: a pause of Stage 5 always   *)
(* has a further item of words_to_process after it, and a batch whose      *)
(* Stage 5 entered the branch of each of its n >= 1 selected words (the    *)
(* in-loop status check skipped none) has made exactly n - 1 pauses.       *)
C11_RateLimitDelay ==
    \A b \in Batches :
        /\ batches[b].pc = "s5_sleep" => batches[b].i < Len(batches[b].to_process)
        /\ ( /\ batches[b].pc = "done"
             /\ batches[b].selected >= 1
             /\ batches[b].processed = batches[b].selected )
           => batches[b].pauses = batches[b].selected - 1

\* Stage 5 of a batch went through four words with three pauses
C11_Witness ==
    \E b \in Batches :
        /\ batches[b].pc = "done"
        /\ batches[b].selected = 4
        /\ batches[b].processed = 4
        /\ batches[b].pauses = 3

\* C11 as stated: Stage 5 that processed n >= 1 words made n - 1 pauses
C11_PausesOfProcessed ==
    \A b \in Batches :
        (batches[b].pc = "done" /\ batches[b].processed >= 1)
           => batches[b].pauses = batches[b].processed - 1

-----------------------------------------------------------------------------
CallPcs == {"s1_call", "s2_call", "s3_call"}

\* the batches whose Stage 1, 2 or 3 bulk call is in flight
BulkInFlight == {b \in Batches : batches[b].pc \in CallPcs}

(* C12 - Outer pool bound: the bulk calls of Stages 1-3 in flight, over    *)
(* all batches, are never more than MAX_PARALLEL_REQUESTS, and the slots   *)
(* of Pipeline.semaphore taken are exactly one per bulk call in flight (a  *)
(* call that returned or raised holds none).                               *)
C12_OuterPoolBound ==
    /\ Cardinality(BulkInFlight) <= MAX_PARALLEL_REQUESTS
    /\ semaphore = Cardinality(BulkInFlight)

\* the pool is full: one batch has its bulk call in flight, another waits
C12_Witness ==
    \E b1, b2 \in Batches :
        /\ batches[b1].pc \in CallPcs
        /\ batches[b2].pc \in WaitPcs
        /\ semaphore = MAX_PARALLEL_REQUESTS

-----------------------------------------------------------------------------
\* the image-prompt calls in flight in the Stage 4 invocation of batch b
PromptsInFlight(b) == {j \in batches[b].lo..batches[b].hi : tasks[j] = "call"}

(* C13 - Inner pool bound: a Stage 4 invocation has at most 3 image-prompt *)
(* calls in flight, and these calls hold no slot of the outer pool: the    *)
(* slots taken are those of the bulk calls in flight alone.                *)
C13_InnerPoolBound ==
    /\ \A b \in Batches : Cardinality(PromptsInFlight(b)) <= Stage4PoolSize
    /\ semaphore <= Cardinality(BulkInFlight)

\* Stage 4 of a batch has three calls in flight and a fourth task waiting
\* while the bulk call of another batch holds every slot of the outer pool
C13_Witness ==
    \E b1, b2 \in Batches :
        /\ Cardinality(PromptsInFlight(b1)) = Stage4PoolSize
        /\ \E j \in batches[b1].lo..batches[b1].hi : tasks[j] = "wait"
        /\ batches[b2].pc \in CallPcs
        /\ semaphore = MAX_PARALLEL_REQUESTS

-----------------------------------------------------------------------------
\* the kinds of external call issued so far for the entities of batch b
KindsIssued(b) == UNION {calls[j] : j \in batches[b].lo..batches[b].hi}

(* C14 - Stage order within a batch: a batch that has not finished the     *)
(* merge of Stage N-1 has issued no call of Stage N or later: none but the *)
(* metadata call up to the end of Stage 1, no examples call before the end *)
(* of Stage 2, no image-prompt call before the end of Stage 3, no image    *)
(* call before every Stage 4 task has settled; and an entity is in a       *)
(* Stage 2 call only with the word_type that the Stage 1 merge gave it.    *)
C14_StageOrder ==
    /\ \A b \in Batches :
          /\ batches[b].pc \in {"start", "s1_wait", "s1_call"} =>
                KindsIssued(b) \subseteq {"metadata"}
          /\ batches[b].pc \in {"s2_wait", "s2_call"} =>
                KindsIssued(b) \subseteq {"metadata", "definition"}
          /\ batches[b].pc \in {"s3_wait", "s3_call"} =>
                KindsIssued(b) \subseteq BulkKinds
          /\ batches[b].pc = "s4" => KindsIssued(b) \cap ImageKinds = {}
          /\ batches[b].pc \in Stage5Pcs \cup {"done"} =>
                \A j \in batches[b].lo..batches[b].hi : tasks[j] \notin {"call", "wait"}
    /\ \A j \in Entries : "definition" \in calls[j] => entries[j].word_type = "COMPLEX"

\* no order across batches: the second batch has finished its Stage 1 and
\* issued its Stage 2 call while the Stage 1 call of the first is in flight
C14_Witness ==
    /\ Len(batches) = 2
    /\ batches[1].pc = "s1_call"
    /\ batches[2].pc = "s2_call"
    /\ "definition" \in KindsIssued(2)

-----------------------------------------------------------------------------
(* C15 - Fail-fast run: once a chat call of Stages 1-4 or the image        *)
(* generation of Stage 5 has raised in a batch, process_batch has raised   *)
(* and returned no result list, whatever the other batches have completed; *)
(* a run returns only with every batch through.                            *)
C15_FailFast ==
    /\ (\E b \in Batches : batches[b].pc = "raised") =>
          (outcome = "raised" /\ results = << >>)
    /\ outcome = "returned" => \A b \in Batches : batches[b].pc = "done"

\* a run has raised although one of its batches had built its results
C15_Witness ==
    /\ outcome = "raised"
    /\ results = << >>
    /\ \E b1, b2 \in Batches :
          /\ batches[b1].pc = "raised"
          /\ batches[b2].pc = "done"
          /\ batches[b2].results # << >>

-----------------------------------------------------------------------------
(* The calls a completion flag stands for *)
KindsOfFlag(flag) ==
    CASE flag = "metadata" -> {"metadata"}
      [] flag = "definition" -> {"definition"}
      [] flag = "examples" -> {"examples"}
      [] flag = "image_prompt" -> {"image_prompt"}
      [] flag = "image_generation" -> ImageKinds

\* the flags the aborted previous run left in the database for word j
LeftByAbort(j) ==
    IF prev.outcome = "raised" /\ j \in DOMAIN prev.words
          /\ prev.words[j].canonical_form # None
    THEN {flag \in Flags : prev.words[j].stage_status[flag]}
    ELSE {}

(* C16 - No rollback: every completion flag in the database when a run     *)
(* aborts is still there, unchanged, once the run has aborted, and the     *)
(* next force=false run issues no call of those stages for those words.    *)
C16_NoRollback ==
    /\ outcome = "raised" =>
          \A j \in Entries : entries[j].canonical_form # None =>
              prev.words[j].stage_status = Persisted(j)
    /\ (Rerun /\ ~prev.test_mode) =>
          \A j \in Entries : \A flag \in LeftByAbort(j) :
              calls[j] \cap KindsOfFlag(flag) = {}

-----------------------------------------------------------------------------
\* the previous run returned and left word j with a canonical form and
\* without the image_generation flag: its image branch had yielded no file
SoftFailedBefore(j) ==
    /\ prev.outcome = "returned"
    /\ ~prev.test_mode
    /\ j \in DOMAIN prev.words
    /\ TruthyStr(prev.words[j].canonical_form)
    /\ ~prev.words[j].stage_status.image_generation

\* the image branch of entity j ran in this run and yielded no file
SoftFailed(j) ==
    /\ Pc(j) = "done"
    /\ TruthyStr(entries[j].canonical_form)
    /\ ~TruthyList(entries[j].image_files)
    /\ Unshared(j)

(* C17 - Soft failure in Stage 5: a word whose image branch yields no file *)
(* gets no image_generation flag, its batch goes on to the end without     *)
(* raising, and the next force=false run selects the word for Stage 5      *)
(* again.                                                                  *)
C17_SoftFailure ==
    /\ \A j \in Entries :
          (outcome = "running" /\ ~test_mode /\ SoftFailed(j)) =>
              ~Persisted(j).image_generation
    /\ Rerun =>
          \A j \in Entries : (SoftFailedBefore(j) /\ Done(j)) =>
              batches[BatchOf(j)].selected >= 1

-----------------------------------------------------------------------------
\* the store raised in a step of batch b
StoreFailed(b) == batches[b].store_error

\* batch b runs the Stage 1 filter in this step and goes on to its bulk call
Stage1Filtered(b) ==
    /\ b \in DOMAIN batches'
    /\ batches[b].pc = "start"
    /\ batches'[b].pc \in {"s1_wait", "s1_call"}

(* C18 - Store errors are fatal: when a store access raises, the batch and *)
(* the run are aborted with no result list, and the step of the failed     *)
(* access issues no external call; without force, the Stage 1 filter       *)
(* selects exactly the words whose key is missing from the store.          *)
C18_StoreErrorsFatal ==
    /\ [](\A b \in Batches : StoreFailed(b) =>
             /\ batches[b].pc = "raised"
             /\ outcome = "raised"
             /\ results = << >>)
    /\ [][\A b \in Batches :
             /\ (b \in DOMAIN batches' /\ batches'[b].store_error /\ ~StoreFailed(b))
                   => calls' = calls
             /\ (Stage1Filtered(b) /\ ~force /\ ~test_mode) =>
                   \A j \in batches[b].lo..batches[b].hi :
                       j \in Range(batches'[b].to_process)
                          <=> entries[j].original \notin DOMAIN db.rows]_vars

\* a read of the Stage 1 filter failed for a batch that holds a word whose
\* key is in the store, while another batch was at its bulk call
C18_Witness ==
    /\ outcome = "raised"
    /\ \E b \in Batches :
          /\ StoreFailed(b)
          /\ \A j \in batches[b].lo..batches[b].hi : calls[j] = {}
          /\ \E j \in batches[b].lo..batches[b].hi : entries[j].original \in DOMAIN db.rows
    /\ \E b \in Batches : batches[b].pc = "s1_call"

-----------------------------------------------------------------------------
\* the four metadata fields of an entity
MetadataOf(j) ==
    {entries[j].canonical_form, entries[j].part_of_speech,
     entries[j].word_type, entries[j].translation}

(* C19 - Atomic metadata: in every reachable state each entity has its     *)
(* canonical form, part of speech, word type and translation either all    *)
(* unset or all set.                                                       *)
C19_AtomicMetadata ==
    \A j \in Entries : MetadataOf(j) = {None} \/ None \notin MetadataOf(j)

-----------------------------------------------------------------------------
\* the errors the retry policy is for: rate limit, timeout, connection, 5xx
Retryable ==
    {"RateLimitError", "APITimeoutError", "APIConnectionError", "InternalServerError"}

\* attempts made so far by the invocation
Attempts == Len(chat.errors) + (IF chat.pc \in {"attempt", "returned"} THEN 1 ELSE 0)

(* C20 - Retry policy of a chat call: call_chat makes at most 5 attempts,  *)
(* every attempt but the first follows attempts that all failed with a     *)
(* retryable error, a successful attempt ends the call, and after a fifth  *)
(* retryable failure the call raises the error of that attempt.            *)
C20_RetryPolicy ==
    /\ Attempts <= 5
    /\ \A k \in 1..Len(chat.errors) :
          (k < Len(chat.errors) \/ chat.pc \in {"attempt", "wait", "returned"})
              => chat.errors[k] \in Retryable
    /\ chat.pc = "returned" => chat.raised = None
    /\ (chat.pc = "raised" /\ Len(chat.errors) = 5 /\ chat.errors[5] \in Retryable)
          => chat.raised = chat.errors[5]

-----------------------------------------------------------------------------
\* batch b builds its results in this step
BuildsResults(b) ==
    /\ b \in DOMAIN batches'
    /\ batches[b].pc # "done"
    /\ batches'[b].pc = "done"

(* C21 - Final status read-back: in a non-test run, the results a batch    *)
(* builds hold, for each of its entities in order, the entity and the      *)
(* status that the store has under its canonical form at that moment, the  *)
(* all-false status when the entity has no canonical form; the returned    *)
(* list is the concatenation of the batch results.                         *)
C21_ReadBack ==
    /\ [][\A b \in Batches : (BuildsResults(b) /\ ~test_mode) =>
             /\ Len(batches'[b].results) = batches[b].hi - batches[b].lo + 1
             /\ \A k \in 1..Len(batches'[b].results) :
                   LET r == batches'[b].results[k]
                       entry == entries'[batches[b].lo + k - 1]
                   IN  /\ r.word = entry
                       /\ r.stage_status =
                             IF entry.canonical_form = None THEN DefaultStatus
                             ELSE StatusOr(db', entry.canonical_form, DefaultStatus)]_vars
    /\ [](outcome = "returned" => results = Flatten(batches, 1))

\* a non-test run returned: one result has the default status although the
\* store has a status under the word's spelling, another has a status that
\* the store has replaced since the result was built
C21_Witness ==
    /\ outcome = "returned"
    /\ ~test_mode
    /\ \E k \in 1..Len(results) :
          /\ results[k].word.canonical_form = None
          /\ results[k].word.original \in DOMAIN db.rows
          /\ results[k].stage_status = DefaultStatus
    /\ \E k \in 1..Len(results) :
          /\ results[k].word.canonical_form # None
          /\ results[k].stage_status.metadata
          /\ results[k].stage_status # Persisted(k)

-----------------------------------------------------------------------------
\* the batches that await a stock-photo search, a download or an image
\* generation of Stage 5
ImagesInFlight ==
    {b \in Batches : batches[b].pc \in {"s5_search", "s5_download", "s5_generate"}}

(* C22 - Stage 5 is serialized: at every moment of a run at most one       *)
(* Stage 5 image-acquisition call is in flight, over all batches.          *)
C22_Stage5Serialized == Cardinality(ImagesInFlight) <= 1

-----------------------------------------------------------------------------
\* the batches with image-prompt calls of their Stage 4 invocation in
\* flight, and the image-prompt calls in flight over the whole run
InStage4 == {b \in Batches : PromptsInFlight(b) # {}}
AllPromptsInFlight == {j \in DOMAIN tasks : tasks[j] = "call"}

(* C23 - Stage 4 global concurrency: each Stage 4 invocation has its own   *)
(* pool, so the image-prompt calls in flight over the whole run never      *)
(* exceed 3 times the number of batches that have such calls in flight,    *)
(* and a batch has them only from inside its Stage 4 invocation.           *)
C23_Stage4Global ==
    /\ Cardinality(AllPromptsInFlight) <= Stage4PoolSize * Cardinality(InStage4)
    /\ \A b \in InStage4 : batches[b].pc \in {"s4", "raised"}

\* two batches in Stage 4 with 3 calls in flight each, one task of the
\* first batch waiting for a slot of its pool: 6 calls in the run
C23_Witness ==
    /\ Cardinality(InStage4) = 2
    /\ Cardinality(AllPromptsInFlight) = 2 * Stage4PoolSize
    /\ \E j \in DOMAIN tasks : tasks[j] = "wait"

-----------------------------------------------------------------------------
\* the positions of a batch inside a stage that has work: waiting for or
\* awaiting a bulk call, gathering Stage 4 tasks, inside the Stage 5 loop
WorkPcs == WaitPcs \cup CallPcs \cup {"s4"} \cup Stage5Pcs
ComplexPcs == {"s2_wait", "s2_call", "s3_wait", "s3_call", "s4"}

(* C24 - No empty external call: a batch waits for or awaits a bulk call,  *)
(* gathers Stage 4 tasks or runs the Stage 5 loop only with a non-empty    *)
(* list of selected entities; Stages 2-4 work on COMPLEX entities only,    *)
(* and no call of Stages 2-4 is issued for an entity that is not COMPLEX.  *)
C24_NoEmptyCall ==
    /\ \A b \in Batches :
          /\ batches[b].pc \in WorkPcs => batches[b].to_process # << >>
          /\ batches[b].pc \in ComplexPcs =>
                \A j \in Range(batches[b].to_process) : entries[j].word_type = "COMPLEX"
    /\ \A j \in Entries :
          calls[j] \cap ComplexKinds # {} => entries[j].word_type = "COMPLEX"

\* a later run without force went through every stage of its batch and each
\* filter selected nothing: no call at all
C24_Witness ==
    /\ Rerun
    /\ Entries # {}
    /\ \A j \in Entries : Done(j) /\ calls[j] = {}

-----------------------------------------------------------------------------
\* the downloads of the current entity of batch b that raised so far: the
\* URLs tried without a file to show for them
FailedDownloads(b) == (batches[b].url - 1) - Len(batches[b].image_files)

(* C25 - Stage executors absorb only the zero-results soft failure: a      *)
(* batch whose collaborator call raised is aborted, so a batch that is     *)
(* still downloading has had no failed download.                           *)
C25_ErrorsAbort ==
    \A b \in Batches : batches[b].pc = "s5_download" => FailedDownloads(b) = 0

-----------------------------------------------------------------------------
(* C26 - A batch failure aborts the whole run: once process_batch has      *)
(* raised, no step issues a further external call or changes the store.    *)
C26_AbortStopsSiblings ==
    [][(outcome = "raised" /\ outcome' = "raised") =>
          /\ calls' = calls
          /\ db' = db]_vars

-----------------------------------------------------------------------------
\* the image-prompt tasks of batch b that have not settled: in flight, or
\* waiting for a slot of the Stage 4 pool
Unsettled(b) ==
    {j \in batches[b].lo..batches[b].hi : tasks[j] \in {"call", "wait"}}

(* C27 - Stage 4 settles before it completes: a batch has unsettled        *)
(* image-prompt tasks only while it is inside its Stage 4 invocation, not  *)
(* once the invocation has returned or raised.                             *)
C27_Stage4Settles ==
    \A b \in Batches : batches[b].pc # "s4" => Unsettled(b) = {}

-----------------------------------------------------------------------------
\* the number of the stage a flag belongs to, and the flag of Stage n
StageNo(flag) ==
    CASE flag = "metadata" -> 1 [] flag = "definition" -> 2 [] flag = "examples" -> 3
      [] flag = "image_prompt" -> 4 [] flag = "image_generation" -> 5
FlagOf(n) == CHOOSE flag \in Flags : StageNo(flag) = n

\* the fresh status of the policy: the flags of Stages 1..n
FreshFor(n) == [flag \in Flags |-> StageNo(flag) <= n]

\* the status the policy has Stage n write over what the store holds
PolicyStatus(n) ==
    LET got == get_word_status(db, entries[1].canonical_form)
    IN  IF got = << >> THEN FreshFor(n) ELSE [got[1] EXCEPT ![FlagOf(n)] = TRUE]

-----------------------------------------------------------------------------
\* the flags of Stages 2-5 whose stage has completed for entity j in this
\* run: the stage gave the entity its field and wrote the flag
CompletedFlags(j) ==
    {flag \in Flags :
        \/ flag = "definition" /\ entries[j].definition # None
        \/ flag = "examples" /\ TruthyList(entries[j].example_sentences)
        \/ flag = "image_prompt" /\ entries[j].image_prompt # None
        \/ flag = "image_generation" /\ TruthyList(entries[j].image_files)}

\* entities of different batches with one canonical form
Concurrent(j1, j2) ==
    /\ BatchOf(j1) # BatchOf(j2)
    /\ entries[j1].canonical_form # None
    /\ entries[j1].canonical_form = entries[j2].canonical_form

(* C29 - No lost update in Stages 2-5: when coroutines of two batches have *)
(* completed different stages among 2..5 for one canonical form, both      *)
(* flags are true in the store.                                            *)
C29_NoLostUpdate ==
    ~test_mode =>
        \A j1, j2 \in Entries : Concurrent(j1, j2) =>
            \A f1 \in CompletedFlags(j1), f2 \in CompletedFlags(j2) :
                f1 # f2 => Persisted(j1)[f1] /\ Persisted(j1)[f2]

-----------------------------------------------------------------------------
\* the responses of bulk stage n, and those with pairwise distinct tags
ResponsesOf(n) ==
    CASE n = 1 -> MetadataResponses
      [] n = 2 -> DefinitionResponses
      [] n = 3 -> ExampleResponses

DistinctTags(r) == \A a, b \in 1..Len(r) : a # b => r[a].word # r[b].word

\* the entities of batch b have pairwise distinct originals
DistinctOriginals(b) ==
    \A j1, j2 \in batches[b].lo..batches[b].hi :
        j1 # j2 => entries[j1].original # entries[j2].original

\* the items of r in the order p
Permuted(r, p) == [k \in 1..Len(r) |-> r[p[k]]]

\* what the merge of response r leaves: the store and the entities
MergeOutcome(b, n, r) ==
    LET merged == Merge(Ctx(b), n, r, 1)
    IN  << merged.db, merged.entries >>

(* C30 - Merge is by tag, not by position: for a batch of pairwise         *)
(* distinct originals that awaits a bulk response, every response with     *)
(* pairwise distinct tags leaves the same entity fields and the same store *)
(* whatever the order of its items.                                        *)
C30_MergeByTag ==
    \A b \in Batches : \A n \in 1..3 :
        (batches[b].pc = CallPc(n) /\ DistinctOriginals(b)) =>
            \A r \in ResponsesOf(n) : DistinctTags(r) =>
                \A p \in Permutations(1..Len(r)) :
                    MergeOutcome(b, n, Permuted(r, p)) = MergeOutcome(b, n, r)

\* a batch of two words of one canonical form awaits its definitions: the
\* two items of a full response write the same key of the store
C30_Witness ==
    \E b \in Batches :
        /\ batches[b].pc = "s2_call"
        /\ ~test_mode
        /\ Len(batches[b].to_process) = 2
        /\ DistinctOriginals(b)
        /\ entries[batches[b].to_process[1]].canonical_form
              = entries[batches[b].to_process[2]].canonical_form
        /\ entries[batches[b].to_process[1]].canonical_form # None

-----------------------------------------------------------------------------
\* the positions k1 < k2 of the to-process list of batch b hold entities of
\* one original spelling
Twins(b, k1, k2) ==
    /\ k1 < k2
    /\ entries[batches[b].to_process[k1]].original
          = entries[batches[b].to_process[k2]].original

\* the items of response r tagged word
ItemsOf(r, word) == {k \in 1..Len(r) : r[k].word = word}

\* the fields the bulk stage n assigns, and what the item gives them
FieldsOf(n) ==
    CASE n = 1 -> {"canonical_form", "part_of_speech", "word_type", "translation"}
      [] n = 2 -> {"definition"}
      [] n = 3 -> {"example_sentences"}

Given(n, item, field) ==
    IF n = 3 THEN Some(item.example_sentences) ELSE item[field]

\* batch b awaits the response of bulk stage n: whatever response with one
\* item for the spelling of twins arrives, the merge gives the item to the
\* earlier twin and leaves the later one as it is
FirstTwinMerged(b, n) ==
    \A k1, k2 \in 1..Len(batches[b].to_process) : Twins(b, k1, k2) =>
        LET j1 == batches[b].to_process[k1]
            j2 == batches[b].to_process[k2]
            first == \A k \in 1..(k1 - 1) :
                        entries[batches[b].to_process[k]].original # entries[j1].original
        IN  \A r \in ResponsesOf(n) :
                LET hits == ItemsOf(r, entries[j1].original)
                    merged == Merge(Ctx(b), n, r, 1)
                IN  Cardinality(hits) = 1 =>
                        /\ merged.entries[j2] = entries[j2]
                        /\ first => \A h \in hits : \A field \in FieldsOf(n) :
                              merged.entries[j1][field] = Given(n, r[h], field)

(* C31 - First match wins: when two entities of the to-process list of a   *)
(* bulk stage have one original spelling and the response holds one item   *)
(* tagged with it, the earliest entity of that spelling receives the       *)
(* fields, and the later ones are modified by no step of the stage.        *)
C31_FirstMatchWins ==
    /\ [](\A b \in Batches : \A n \in 1..3 :
            batches[b].pc = CallPc(n) => FirstTwinMerged(b, n))
    /\ [][\A b \in Batches :
            batches[b].pc \in WaitPcs \cup CallPcs =>
                \A k1, k2 \in 1..Len(batches[b].to_process) : Twins(b, k1, k2) =>
                    entries'[batches[b].to_process[k2]]
                        = entries[batches[b].to_process[k2]]]_vars

\* Stage 1 called for twins and merged its response: the first twin has its
\* metadata, the second is as process_batch created it
C31_Witness ==
    \E b \in Batches :
        /\ batches[b].pc \in Past1
        /\ batches[b].hi = batches[b].lo + 1
        /\ entries[batches[b].lo].original = entries[batches[b].hi].original
        /\ "metadata" \in calls[batches[b].hi]
        /\ entries[batches[b].lo].canonical_form # None
        /\ entries[batches[b].hi] = WordEntry(entries[batches[b].hi].original)

-----------------------------------------------------------------------------
(* C32 - In every reachable state the example_sentences of every entity    *)
(* are unset or a list of at most three sentences, whatever number of      *)
(* sentences the Stage 3 response item carries.                            *)
C32_AtMostThreeSentences ==
    \A j \in Entries :
        entries[j].example_sentences # NoList =>
            Len(entries[j].example_sentences[1]) <= 3

-----------------------------------------------------------------------------
\* call_chat returned a text that does not parse once cleaned
Malformed ==
    /\ chat.content # NoList
    /\ chat.content[1] # NoContent
    /\ ~Loads(Clean(chat.content[1]))

(* C33 - Malformed response is not retried: when the chat call returns a   *)
(* text that is not valid JSON, call_chat_json raises ValueError after     *)
(* exactly one attempt that returned, and no attempt follows; when the     *)
(* chat call raises, call_chat_json raises the same error.                 *)
C33_MalformedNotRetried ==
    /\ [](Malformed =>
            chat.pc = "raised" /\ chat.json_raised = "ValueError" /\ chat.returned = 1)
    /\ []((chat.pc = "raised" /\ chat.returned = 0) =>
            chat.raised # None /\ chat.json_raised = chat.raised)
    /\ [][chat.pc \in {"raised", "returned"} => chat' = chat]_vars

\* a fenced text that is no JSON came back after a failed attempt
C33_Witness ==
    /\ Malformed
    /\ chat.errors # << >>
    /\ chat.content[1] = << "fence_json", "prose", "fence" >>
    /\ chat.json_raised = "ValueError"

-----------------------------------------------------------------------------
\* the number of entities of batch b
SizeOf(b) == batches[b].hi - batches[b].lo + 1

(* C34 - Chunking: process_batch makes one entity per word, in input       *)
(* order, and splits them into consecutive batches: every entity is in     *)
(* exactly one batch, every batch but the last has BATCH_SIZE entities,    *)
(* the last has between 1 and BATCH_SIZE, and an empty word list gives no  *)
(* batch and no external call.                                             *)
C34_Chunking ==
    run > 0 =>
        /\ Len(entries) = Len(words)
        /\ \A j \in Entries : entries[j].original = words[j]
        /\ \A j \in Entries :
              Cardinality({b \in Batches : batches[b].lo <= j /\ j <= batches[b].hi}) = 1
        /\ \A b \in Batches :
              /\ batches[b].lo = (IF b = 1 THEN 1 ELSE batches[b - 1].hi + 1)
              /\ batches[b].hi <= Len(entries)
              /\ b < Len(batches) => SizeOf(b) = BATCH_SIZE
              /\ b = Len(batches) => SizeOf(b) \in 1..BATCH_SIZE
        /\ words = << >> => batches = << >> /\ calls = << >> /\ semaphore = 0

\* 41 words under the default batch size: two batches of twenty and one of
\* one word, all started
C34_Witness ==
    /\ BATCH_SIZE = DefaultBatchSize
    /\ Len(batches) = 3
    /\ SizeOf(3) = 1
    /\ AllStarted

-----------------------------------------------------------------------------
(* C35 - Result order: a run that returns gives one result per input word, *)
(* and the i-th result is that of the i-th input word, in whatever order   *)
(* the concurrent batches completed.                                       *)
C35_ResultOrder ==
    outcome = "returned" =>
        /\ Len(results) = Len(words)
        /\ \A i \in 1..Len(words) :
              /\ results[i].word.original = words[i]
              /\ results[i].word = entries[i]

\* a run of two batches that could hold their bulk calls at the same time
\* has returned
C35_Witness ==
    /\ outcome = "returned"
    /\ Len(batches) = 2
    /\ MAX_PARALLEL_REQUESTS = 2
    /\ Len(results) = 3
    /\ results[1].word.original # results[3].word.original

-----------------------------------------------------------------------------
\* the Stage 1 filter of this run passed over entity j: the run neither
\* forces nor tests, and Stage 1 is over or under way without a call for j
Skipped(j) ==
    /\ ~force
    /\ ~test_mode
    /\ Pc(j) \notin {"start", "s1_wait"}
    /\ "metadata" \notin calls[j]

\* the result of entity j in the list its batch returns
ResultOf(j) == batches[BatchOf(j)].results[j - batches[BatchOf(j)].lo + 1]

(* C36 - An entity that the Stage 1 filter skips (no force, no test mode,  *)
(* a status persisted under its original spelling) keeps canonical_form,   *)
(* word_type and translation unset for the whole run: no external call of  *)
(* any stage is issued for it and its result carries the default status,   *)
(* never the persisted one.                                                *)
C36_SkippedStaysBare ==
    /\ [](\A j \in Entries : Skipped(j) =>
            /\ entries[j].canonical_form = None
            /\ entries[j].word_type = None
            /\ entries[j].translation = None
            /\ calls[j] = {}
            /\ Pc(j) = "done" => ResultOf(j).stage_status = DefaultStatus
            /\ outcome = "returned" => results[j].stage_status = DefaultStatus)
    /\ [][\A b \in Batches : (batches[b].pc = "start" /\ batches'[b].pc # "start") =>
            \A j \in batches[b].lo..batches[b].hi :
                (~force /\ ~test_mode /\ get_word_status(db, entries[j].original) # << >>)
                    => ("metadata" \notin calls'[j] /\ batches'[b].pc # "s1_wait")]_vars

\* a second run returned the default status for a word whose spelling has
\* a status in the store
C36_Witness ==
    /\ outcome = "returned"
    /\ run = 2
    /\ Len(words) = 1
    /\ Skipped(1)
    /\ get_word_status(db, words[1]) # << >>
    /\ get_word_status(db, words[1])[1] # DefaultStatus
    /\ results[1].stage_status = DefaultStatus

-----------------------------------------------------------------------------
\* the entities of batch b that are eligible for Stage 5
WithCanonicalForm(b) ==
    SelectSeq(Indices(batches[b].lo, batches[b].hi),
              LAMBDA j : TruthyStr(entries[j].canonical_form))

\* batch b has selected every eligible entity in the stage it is in
SelectsAll(b) ==
    LET pc == batches[b].pc
    IN  /\ pc \in {"s1_wait", "s1_call"} =>
              batches[b].to_process = Indices(batches[b].lo, batches[b].hi)
        /\ pc \in {"s2_wait", "s2_call", "s3_wait", "s3_call", "s4"} =>
              batches[b].to_process = Select(Ctx(b), IsComplex)
        /\ pc \in Stage5Pcs \cup {"done"} =>
              batches[b].selected = Len(WithCanonicalForm(b))

(* C37 - Test mode leaves the store alone: in a run with test_mode=true no *)
(* step accesses the store (none can fail on it, none changes it), every   *)
(* stage selects all its eligible entities whatever is persisted, and      *)
(* every returned result carries the default status.                       *)
C37_TestModeLeavesStore ==
    /\ [](test_mode =>
            /\ \A b \in Batches : ~StoreFailed(b) /\ SelectsAll(b)
            /\ outcome = "returned" =>
                  /\ Len(results) = Len(words)
                  /\ \A i \in 1..Len(results) : results[i].stage_status = DefaultStatus)
    /\ [][test_mode => db' = db]_vars

\* a test run over a store that holds the finished word "kuca" returned,
\* having searched photos for it again
C37_Witness ==
    /\ test_mode
    /\ outcome = "returned"
    /\ db.rows # << >>
    /\ \E j \in Entries :
          /\ entries[j].canonical_form \in DOMAIN db.rows
          /\ db.rows[entries[j].canonical_form].image_generation
          /\ {"metadata", "search"} \subseteq calls[j]

-----------------------------------------------------------------------------
\* the Stage 4 tasks of batch b that wait for a slot of its pool
PromptsWaiting(b) == {j \in Range(batches[b].to_process) : tasks[j] = "wait"}

\* the batches of the run that have neither returned nor raised
Unfinished == {b \in Batches : batches[b].pc \notin {"done", "raised"}}

\* every slot taken is held by a call in flight: none stays taken after the
\* call returned or raised
SlotsAccounted ==
    /\ semaphore = Cardinality(BulkInFlight)
    /\ \A b \in Batches : batches[b].pc = "s4" =>
          Cardinality(PromptsInFlight(b)) <= Stage4PoolSize

\* a coroutine or task waits only while the pool it waits for is busy or is
\* about to be taken
NoneBlocked ==
    outcome = "running" =>
        /\ (Unfinished # {} /\ AllStarted) =>
              \E b \in Unfinished :
                  batches[b].pc \notin WaitPcs \/ semaphore < MAX_PARALLEL_REQUESTS
        /\ \A b \in Batches :
              PromptsWaiting(b) # {} => Cardinality(PromptsInFlight(b)) = Stage4PoolSize

(* C38 - Termination without deadlock: when every external call returns or *)
(* raises in the end, every run of process_batch returns or raises; every  *)
(* slot taken of the outer pool and of a Stage 4 pool is given back when   *)
(* its call returned or raised, and in no reachable state are all the      *)
(* unfinished batches blocked on a slot.                                   *)
C38_Termination ==
    /\ (outcome = "running") ~> (outcome \in {"returned", "raised"})
    /\ [](SlotsAccounted /\ NoneBlocked)
    /\ [](outcome = "returned" => semaphore = 0 /\ \A j \in DOMAIN tasks : tasks[j] = "idle")

\* a run of five words in two batches with one slot of the outer pool has
\* returned: the batches took turns on the slot and the four tasks of the
\* first batch on the three slots of its pool
C38_Witness ==
    /\ outcome = "returned"
    /\ MAX_PARALLEL_REQUESTS = 1
    /\ BATCH_SIZE = 4
    /\ Len(batches) = 2
    /\ semaphore = 0
    /\ \A j \in 1..4 : "image_prompt" \in calls[j]

-----------------------------------------------------------------------------
\* the keys a step adds to the store
NewKeys == DOMAIN db'.rows \ DOMAIN db.rows

(* C39 - Starting from an empty store, every status persisted under a      *)
(* non-null canonical form has metadata true in every reachable state: a   *)
(* key enters the store with the status of the Stage 1 merge, and every    *)
(* entity that holds a canonical form outside test mode has a status       *)
(* under it, so that no completion write of Stages 2-5 under such a key    *)
(* falls back on a synthesized status.                                     *)
C39_MetadataUnderEveryKey ==
    /\ [](\A k \in DOMAIN db.rows : db.rows[k].metadata)
    /\ [](~test_mode => \A j \in Entries :
            entries[j].canonical_form # None =>
                get_word_status(db, entries[j].canonical_form) # << >>)
    /\ [][\A k \in NewKeys : db'.rows[k] = Stage1Status]_vars

\* the completion writes of Stages 2-5 found the status of Stage 1 under
\* the key of a COMPLEX word, and that of Stage 5 under the key of a SIMPLE one
C39_Witness ==
    /\ run = 1
    /\ \E j \in Entries :
          /\ entries[j].word_type = "COMPLEX"
          /\ entries[j].canonical_form # None
          /\ Persisted(j) = StageStatus(TRUE, TRUE, TRUE, TRUE, TRUE)
    /\ \E j \in Entries :
          /\ entries[j].word_type = "SIMPLE"
          /\ entries[j].canonical_form # None
          /\ Persisted(j) = StageStatus(TRUE, FALSE, FALSE, FALSE, TRUE)

=============================================================================
